---- MODULE Spec2Model ----
(***************************************************************************)
(* Verification model of the WhatsApp calendar assistant                   *)
(* (src/API/whatsApp.py and the services it calls).                        *)
(*                                                                         *)
(* The webhook handler `receive` is a function of the stored               *)
(* conversation_state row, the inbound message and the answers of its      *)
(* collaborators (slot extractor, calendar, executor).  The model keeps    *)
(* the stored row (db), the message being handled (msg), the row object    *)
(* the handler's session ends with (mem) and a record of what the turn     *)
(* did (out).  A turn is two steps: Arrive, then the one action of the     *)
(* branch of `receive` the row and the message select; Return closes the   *)
(* request.                                                                *)
(*                                                                         *)
(* The specifications:                                                     *)
(*   - Spec: the dialogue.  A behaviour starts from one of the rows the    *)
(*     handler may find stored (StoredRows) and takes any number of turns. *)
(*   - SpecMerge: the merge step of aplicar_extraccion_de_slots on its     *)
(*     own, over stored slots, proposals and changes drawn from bounded    *)
(*     sets.                                                               *)
(*   - SpecResolver: resolver_evento_id on its own, over date criteria     *)
(*     and the lists of events a calendar may return for a day.            *)
(*   - SpecDetect: detect_intent on its own, over short texts.             *)
(*   - SpecRace: two requests of one phone whose steps interleave.         *)
(*   - SpecLink: the consent-link cooldown of `receive`, for two requests  *)
(*     of one phone that got a send_link decision, on a monotonic clock.   *)
(*   - SpecAuth: the stored Google credentials of two phones under         *)
(*     ensure_access (with try_refresh) and the OAuth callback, with the   *)
(*     signed state of the consent link and the answers of Google drawn    *)
(*     from bounded sets.                                                  *)
(*                                                                         *)
(* What the model takes as given                                           *)
(*   - the module imports and `receive` reaches line 434 (the import at    *)
(*     line 22 and the names `select` and `time` resolve as intended);     *)
(*   - extraer_slots and ejecutar_accion_calendar, whose bodies are not in *)
(*     the repository, return any result their contract allows;            *)
(*   - the calendar client answers with a list of events or raises.        *)
(* Everything else is as the code has it: no exception is caught, the      *)
(* classifier's labels are the ones it returns, and slots_json is written  *)
(* by the session as a plain JSONB attribute.                              *)
(*                                                                         *)
(* Representation of Python values                                         *)
(*   - a text is a sequence of tokens: words, digit runs and the           *)
(*     whitespace tokens " " and "\n";                                     *)
(*   - a scalar slot value is a string; ABSENT stands for "key not in the  *)
(*     dict", NULL for None, "" for the empty string, "[]" and "{}" for    *)
(*     the empty list and the empty dict;                                  *)
(*   - slots_json is a record: sc (the scalar keys), cambios (the nested   *)
(*     dict of changes) and opciones (the list under "opciones_evento").   *)
(***************************************************************************)
EXTENDS Integers, Sequences, FiniteSets, TLC

\* ------------------------------------------------------------------------
\* Bounds of the model
\* ------------------------------------------------------------------------

\* Largest number of events the calendar returns for one day.
MaxEvents == 3

\* Number of clock steps a behaviour of the cooldown takes.
MaxTicks == 6

\* Number of half lifetimes of a consent link's state that go by.
MaxAgeSteps == 3

\* ------------------------------------------------------------------------
\* Python values
\* ------------------------------------------------------------------------

ABSENT == "<absent>"
NULL == "<null>"
None == "None"

\* The values the merge treats as empty: (None, "", [], {}).
EmptyVals == {NULL, "", "[]", "{}"}

\* `k not in d or d.get(k) in (None, "", [], {})`
Missing(v) == v = ABSENT \/ v \in EmptyVals

\* `not d.get(k)`
Falsy(v) == v = ABSENT \/ v \in EmptyVals

ScalarKeys ==
    {"titulo", "inicio", "fin", "duracion", "desde", "hasta",
     "fecha_objetivo", "event_id", "awaiting", "criterios_evento"}

ChangeKeys == {"titulo", "inicio"}

NoChanges == [c \in ChangeKeys |-> ABSENT]

\* The value under "cambios": absent, None, or a dict over ChangeKeys.
CambiosAbsent == [kind |-> "absent", m |-> NoChanges]
CambiosNull == [kind |-> "null", m |-> NoChanges]
CambiosDict(m) == [kind |-> "dict", m |-> m]

\* `isinstance(c, dict) and c` : a dict with at least one key
CambiosNonEmptyDict(c) == c.kind = "dict" /\ \E k \in ChangeKeys : c.m[k] # ABSENT

\* `"cambios" not in d or d.get("cambios") in (None, "", [], {})`
CambiosMissing(c) == ~CambiosNonEmptyDict(c)

EmptySlots ==
    [sc |-> [k \in ScalarKeys |-> ABSENT], cambios |-> CambiosAbsent, opciones |-> <<>>]

\* ------------------------------------------------------------------------
\* aplicar_extraccion_de_slots, the merge step
\* ------------------------------------------------------------------------

\* A merge that lets the proposal win over a stored value.
MergeSlotsOverwrite(S, P) ==
    [sc |-> [k \in ScalarKeys |->
                IF P.sc[k] \in {ABSENT, NULL} THEN S.sc[k] ELSE P.sc[k]],
     cambios |-> IF P.cambios.kind \in {"absent", "null"} THEN S.cambios ELSE P.cambios,
     opciones |-> IF P.opciones = <<>> THEN S.opciones ELSE P.opciones]

\* A merge that appends a differing proposal to the stored value.
Appended(v) == IF v = "A" THEN "A B" ELSE IF v = "A B" THEN "A B B" ELSE "A"

MergeSlotsAppend(S, P) ==
    [sc |-> [k \in ScalarKeys |->
                IF P.sc[k] \in {ABSENT, NULL} THEN S.sc[k]
                ELSE IF Missing(S.sc[k]) THEN P.sc[k]
                ELSE IF S.sc[k] = P.sc[k] THEN S.sc[k] ELSE Appended(S.sc[k])],
     cambios |-> IF P.cambios.kind \in {"absent", "null"} THEN S.cambios
                 ELSE IF CambiosMissing(S.cambios) THEN P.cambios ELSE S.cambios,
     opciones |-> IF P.opciones = <<>> THEN S.opciones ELSE
                  IF S.opciones = <<>> THEN P.opciones ELSE S.opciones]

\* whatsApp.py 117-125: copy the stored slots, then for every proposed key
\* whose value is not None, take the proposal when the key is not stored or
\* is stored with an empty value.
MergeSlots(S, P) ==
    [sc |-> [k \in ScalarKeys |->
                IF P.sc[k] \in {ABSENT, NULL} THEN S.sc[k]
                ELSE IF Missing(S.sc[k]) THEN P.sc[k] ELSE S.sc[k]],
     cambios |-> IF P.cambios.kind \in {"absent", "null"} THEN S.cambios
                 ELSE IF CambiosMissing(S.cambios) THEN P.cambios ELSE S.cambios,
     opciones |-> IF P.opciones = <<>> THEN S.opciones ELSE
                  IF S.opciones = <<>> THEN P.opciones ELSE S.opciones]

\* whatsApp.py 127-136: under 'actualizar', a non-empty dict of changes is
\* stored when no dict is stored yet, else merged key by key (a change key
\* is taken when it is not stored or stored empty; None is not skipped here).
MergeCambios(intent, S, cambios) ==
    IF intent = "actualizar" /\ CambiosNonEmptyDict(cambios)
    THEN IF S.cambios.kind # "dict"
         THEN [S EXCEPT !.cambios = cambios]
         ELSE [S EXCEPT !.cambios.m =
                  [c \in ChangeKeys |->
                      IF cambios.m[c] = ABSENT THEN S.cambios.m[c]
                      ELSE IF Missing(S.cambios.m[c]) THEN cambios.m[c]
                      ELSE S.cambios.m[c]]]
    ELSE S

\* whatsApp.py 117-136: both merges, in the order of the code.
MergeAll(intent, S, P, cambios) == MergeCambios(intent, MergeSlots(S, P), cambios)

\* ------------------------------------------------------------------------
\* Texts
\* ------------------------------------------------------------------------

NoneText == <<"None">>

Whitespace == {" ", "\n"}

RECURSIVE LStrip(_)
LStrip(t) == IF t # <<>> /\ Head(t) \in Whitespace THEN LStrip(Tail(t)) ELSE t

RECURSIVE RStrip(_)
RStrip(t) ==
    IF t # <<>> /\ t[Len(t)] \in Whitespace THEN RStrip(SubSeq(t, 1, Len(t) - 1)) ELSE t

\* str.strip()
Strip(t) == RStrip(LStrip(t))

LowerWord(w) ==
    CASE w = "SI" -> "si"
      [] w = "NO" -> "no"
      [] w = "CREAR" -> "crear"
      [] OTHER -> w

\* str.lower()
Lower(t) == [i \in 1..Len(t) |-> LowerWord(t[i])]

\* intent_detector.py 69-74: NFD, drop the combining marks.
StripAccentsWord(w) ==
    CASE w = "sí" -> "si"
      [] w = "agendá" -> "agenda"
      [] OTHER -> w

\* intent_detector.py 76-78
Normalize(t) == Strip(Lower([i \in 1..Len(t) |-> StripAccentsWord(t[i])]))

\* intent_detector.py 25-62: the one-word alternatives of each rule set.
CREATE_KEYWORDS == {"crear", "agendar", "programar", "crea", "agenda", "agendame"}
CANCEL_KEYWORDS ==
    {"cancel", "cancelar", "cancela", "cancelalo", "cancelarlo", "eliminar", "borrar",
     "anula", "anular"}
UPDATE_KEYWORDS == {"mover", "posponer", "cambiar", "reprogramar", "modificar", "pasar"}
CHECK_AVAILABILITY_KEYWORDS == {"disponibilidad"}

\* re.search(pat, t) for some pat of the rule set
Matches(keywords, t) == \E i \in 1..Len(t) : t[i] \in keywords

\* A classifier that tries the cancellation rules before the creation rules.
DetectIntentCancelFirst(text) ==
    LET t == Normalize(text) IN
    IF Matches(CANCEL_KEYWORDS, t) THEN "CANCEL_EVENT"
    ELSE IF Matches(CREATE_KEYWORDS, t) THEN "CREATE_EVENT"
    ELSE IF Matches(UPDATE_KEYWORDS, t) THEN "UPDATE_EVENT"
    ELSE IF Matches(CHECK_AVAILABILITY_KEYWORDS, t) THEN "CHECK_AVAILABILITY"
    ELSE None

\* A classifier that falls back on an intent when no rule set matches.
DetectIntentDefault(text) ==
    LET t == Normalize(text) IN
    IF Matches(CANCEL_KEYWORDS, t) /\ ~Matches(CREATE_KEYWORDS, t) THEN "CANCEL_EVENT"
    ELSE IF Matches(UPDATE_KEYWORDS, t) /\ ~Matches(CREATE_KEYWORDS, t) THEN "UPDATE_EVENT"
    ELSE IF Matches(CHECK_AVAILABILITY_KEYWORDS, t) /\ ~Matches(CREATE_KEYWORDS, t)
    THEN "CHECK_AVAILABILITY"
    ELSE "CREATE_EVENT"

\* intent_detector.py 85-114
detect_intent(text) ==
    LET t == Normalize(text) IN
    IF Matches(CREATE_KEYWORDS, t) THEN "CREATE_EVENT"
    ELSE IF Matches(CANCEL_KEYWORDS, t) THEN "CANCEL_EVENT"
    ELSE IF Matches(UPDATE_KEYWORDS, t) THEN "UPDATE_EVENT"
    ELSE IF Matches(CHECK_AVAILABILITY_KEYWORDS, t) THEN "CHECK_AVAILABILITY"
    ELSE None

\* The digit runs of the modelled messages and int() of each.
DigitRuns == {"0", "1", "2", "3", "4", "5", "12"}

IntOf(w) ==
    CASE w = "0" -> 0
      [] w = "1" -> 1
      [] w = "2" -> 2
      [] w = "3" -> 3
      [] w = "4" -> 4
      [] w = "5" -> 5
      [] w = "12" -> 12

\* whatsApp.py 438: re.search(r"\d+", raw), the first run of digits
RECURSIVE FirstDigits(_)
FirstDigits(t) ==
    IF t = <<>> THEN None
    ELSE IF Head(t) \in DigitRuns THEN Head(t) ELSE FirstDigits(Tail(t))

\* whatsApp.py 505-506
affirmatives ==
    {<<"si">>, <<"sí">>, <<"dale">>, <<"ok">>, <<"okay">>, <<"correcto">>,
     <<"affirmative">>, <<"de", "una">>}
negatives == {<<"no">>, <<"mejor", "no">>, <<"nop">>}

\* whatsApp.py 504
NormalizedReply(text) == Lower(Strip(text))

\* ------------------------------------------------------------------------
\* resolver_evento_id
\* ------------------------------------------------------------------------

\* date.fromisoformat accepts these criteria and rejects any other.
IsoDates == {"2025-03-10", "2025-03-11"}

AllDay == 0 - 1

\* whatsApp.py 297-298: strftime("%H:%M") of a local time.  Times are whole
\* hours counted from the midnight that opens the day asked for (negative
\* the day before); the string shown is the hour of the day, and two such
\* strings compare as their hours do.
Shown(t) == t % 24

\* whatsApp.py 287-301: (titulo, event_id, inicio_str, fin_str) of one event.
\* inicio and fin are the local hour shown as HH:MM; AllDay stands for
\* "todo el día" as inicio and for "" as fin.
Opcion(ev) ==
    [titulo |-> IF ev.summary = "" THEN "(sin título)" ELSE ev.summary,
     id |-> ev.id,
     inicio |-> IF ev.allday THEN AllDay ELSE Shown(ev.start),
     fin |-> IF ev.allday THEN AllDay ELSE Shown(ev.end)]

\* A sort key that is the same for every candidate: the sort leaves the
\* calendar's order.
SortKeyConstant(a, b) == TRUE

\* whatsApp.py 304-307: ("todo el día" first, then the start string)
SortKeyLE(a, b) ==
    LET ga == IF a.inicio = AllDay THEN 0 ELSE 1
        gb == IF b.inicio = AllDay THEN 0 ELSE 1
    IN ga < gb \/ (ga = gb /\ a.inicio <= b.inicio)

\* list.sort(key=...): a stable insertion of x into a sorted list
RECURSIVE InsertOpcion(_, _)
InsertOpcion(x, s) ==
    IF s = <<>> THEN <<x>>
    ELSE IF SortKeyLE(Head(s), x) THEN <<Head(s)>> \o InsertOpcion(x, Tail(s))
    ELSE <<x>> \o s

RECURSIVE SortOpciones(_)
SortOpciones(s) ==
    IF s = <<>> THEN <<>>
    ELSE InsertOpcion(s[Len(s)], SortOpciones(SubSeq(s, 1, Len(s) - 1)))

\* A filter that lets cancelled events through.
VivosAll(items) == items

\* A date check that accepts any criterion.
AnyDate(fecha_id) == TRUE

\* whatsApp.py 229-233: date.fromisoformat(fecha_id) does not raise
\* ValueError.
ValidIsoDate(fecha_id) == fecha_id \in IsoDates

\* whatsApp.py 253
Vivos(items) == SelectSeq(items, LAMBDA ev : ev.status # "cancelled")

\* whatsApp.py 228-310.  cal is the answer of calendar_client.list_events
\* for the day: [ok, items]; ok = FALSE is a call that raises.
resolver_evento_id(fecha_id, cal) ==
    IF ~ValidIsoDate(fecha_id)
    THEN [raised |-> FALSE, queried |-> FALSE, event_id |-> None, opciones |-> <<>>]
    ELSE IF ~cal.ok
    THEN [raised |-> TRUE, queried |-> TRUE, event_id |-> None, opciones |-> <<>>]
    ELSE LET vivos == Vivos(cal.items) IN
         IF Len(vivos) = 0
         THEN [raised |-> FALSE, queried |-> TRUE, event_id |-> None, opciones |-> <<>>]
         ELSE IF Len(vivos) = 1
         THEN [raised |-> FALSE, queried |-> TRUE, event_id |-> vivos[1].id,
               opciones |-> <<>>]
         ELSE [raised |-> FALSE, queried |-> TRUE, event_id |-> None,
               opciones |-> SortOpciones([i \in 1..Len(vivos) |-> Opcion(vivos[i])])]

\* ------------------------------------------------------------------------
\* aplicar_extraccion_de_slots
\* ------------------------------------------------------------------------

Opt(cond, name) == IF cond THEN <<name>> ELSE <<>>

\* whatsApp.py 155-189: the requirement check on the merged slots.
Faltantes(intent, S) ==
    IF intent = "crear"
    THEN Opt(Falsy(S.sc["inicio"]), "inicio")
         \o Opt(Falsy(S.sc["fin"]) /\ Falsy(S.sc["duracion"]), "fin/duracion")
         \o Opt(Falsy(S.sc["titulo"]), "titulo")
    ELSE IF intent = "consultar_disponibilidad"
    THEN Opt(Falsy(S.sc["desde"]), "desde") \o Opt(Falsy(S.sc["hasta"]), "hasta")
    ELSE IF intent = "actualizar"
    THEN Opt(Falsy(S.sc["fecha_objetivo"]), "fecha")
         \o Opt(~CambiosNonEmptyDict(S.cambios), "cambios")
    ELSE IF intent = "cancelar"
    THEN Opt(Falsy(S.sc["criterios_evento"]), "fecha")
    ELSE <<>>

\* whatsApp.py 590-613: the list computed after a rejected switch.
FaltantesNegativo(intent, S) ==
    IF intent = "crear"
    THEN Opt(Falsy(S.sc["inicio"]), "inicio")
         \o Opt(Falsy(S.sc["fin"]) /\ Falsy(S.sc["duracion"]), "fin/duracion")
         \o Opt(Falsy(S.sc["titulo"]), "titulo")
    ELSE IF intent = "consultar_disponibilidad"
    THEN Opt(Falsy(S.sc["desde"]), "desde") \o Opt(Falsy(S.sc["hasta"]), "hasta")
    ELSE IF intent = "actualizar"
    THEN Opt(Falsy(S.sc["event_id"]), "event_id")
         \o Opt(~CambiosNonEmptyDict(S.cambios), "cambios")
    ELSE IF intent = "cancelar"
    THEN Opt(Falsy(S.sc["event_id"]), "event_id")
    ELSE <<>>

\* whatsApp.py 105-106: `if pending_message:`
ConsumioPending(pending_message) == pending_message # NoneText /\ pending_message # <<>>

\* whatsApp.py 104: the text handed to the extractor.
TextoTurno(pending_message, message_text) ==
    IF ConsumioPending(pending_message)
    THEN Strip(Strip(pending_message) \o <<"\n">> \o Strip(message_text))
    ELSE Strip(message_text)

\* A proposal of the extractor: the scalar keys it names, nothing else.
Proposal(titulo, inicio, fin, duracion, desde, hasta) ==
    [sc |-> [k \in ScalarKeys |->
                CASE k = "titulo" -> titulo
                  [] k = "inicio" -> inicio
                  [] k = "fin" -> fin
                  [] k = "duracion" -> duracion
                  [] k = "desde" -> desde
                  [] k = "hasta" -> hasta
                  [] OTHER -> ABSENT],
     cambios |-> CambiosAbsent,
     opciones |-> <<>>]

NothingExtracted == [P |-> EmptySlots, fecha |-> None, cambios |-> CambiosNull]

\* What the user may name as the date of the event: two ISO dates and a
\* date the extractor left unnormalised.
FechaCriteria == {None, "2025-03-10", "2025-03-11", "10/03"}

CambiosExtracted ==
    {CambiosNull,
     CambiosDict([NoChanges EXCEPT !["titulo"] = "B"]),
     CambiosDict([NoChanges EXCEPT !["inicio"] = "t2"])}

\* The intent the extractor works for.  receive passes it the label in
\* force (whatsApp.py 107-111), which is one of the docstring's labels
\* (slots_extractor.py 17-20) or one of the classifier's
\* (intent_detector.py 99-111); the extractor serves both.
ExtractorIntent(label) ==
    CASE label = "CREATE_EVENT" -> "crear"
      [] label = "CHECK_AVAILABILITY" -> "consultar_disponibilidad"
      [] label = "UPDATE_EVENT" -> "actualizar"
      [] label = "CANCEL_EVENT" -> "cancelar"
      [] OTHER -> label

\* extraer_slots (slots_extractor.py 6-36 declares it; its body is not in
\* the repository).  The results its contract allows: slots for 'crear' and
\* 'consultar_disponibilidad', a date criterion for 'cancelar', a date
\* criterion and changes for 'actualizar'; nothing from an empty text or for
\* a label it does not know.
extraer_slots(intent, texto, slots_actuales) ==
    LET i0 == ExtractorIntent(intent) IN
    IF texto = <<>> THEN {NothingExtracted}
    ELSE IF i0 = "crear"
    THEN {[P |-> Proposal(t, i, fd[1], fd[2], ABSENT, ABSENT), fecha |-> None,
           cambios |-> CambiosNull] :
              t \in {ABSENT, "B"}, i \in {ABSENT, "t1"},
              fd \in {<<ABSENT, ABSENT>>, <<"t2", ABSENT>>, <<ABSENT, "1h">>}}
    ELSE IF i0 = "consultar_disponibilidad"
    THEN {[P |-> Proposal(ABSENT, ABSENT, ABSENT, ABSENT, d, h), fecha |-> None,
           cambios |-> CambiosNull] : d \in {ABSENT, "t1"}, h \in {ABSENT, "t2"}}
    ELSE IF i0 = "actualizar"
    THEN {[P |-> EmptySlots, fecha |-> f, cambios |-> c] :
              f \in FechaCriteria, c \in CambiosExtracted}
    ELSE IF i0 = "cancelar"
    THEN {[P |-> EmptySlots, fecha |-> f, cambios |-> CambiosNull] : f \in FechaCriteria}
    ELSE {NothingExtracted}

\* A resolver call that does not look at the event id already in the slots.
NeedsResolverAgain(intent, S1, fecha) ==
    intent \in {"actualizar", "cancelar"} /\ fecha \notin {None, ""}

\* whatsApp.py 139-140: the resolver is called
NeedsResolver(intent, S1, fecha) ==
    /\ intent \in {"actualizar", "cancelar"}
    /\ S1.sc["event_id"] = ABSENT
    /\ fecha \notin {None, ""}

NoCalendar == [ok |-> TRUE, items |-> <<>>]

\* whatsApp.py 141-153 on the merged slots S1; res is the resolver's result.
StoreResolution(S1, fecha, res) ==
    LET S2 == [S1 EXCEPT !.sc["fecha_objetivo"] = fecha] IN
    IF res.raised THEN S2
    ELSE IF res.event_id # None THEN [S2 EXCEPT !.sc["event_id"] = res.event_id]
    ELSE IF res.opciones # <<>> THEN [S2 EXCEPT !.opciones = res.opciones]
    ELSE S2

\* whatsApp.py 77-191.  ex is the result of extraer_slots on the turn's
\* text, cal the calendar's answer if the resolver asks.  `alias` is the
\* value the caller's dict holds afterwards: dict(state_slots) is a shallow
\* copy, so the key-by-key merge of changes (134-136) writes into the nested
\* dict of the caller too.
aplicar_extraccion_de_slots(intent_actual, state_slots, pending_message, ex, cal) ==
    LET S1 == MergeAll(intent_actual, state_slots, ex.P, ex.cambios)
        resolve == NeedsResolver(intent_actual, S1, ex.fecha)
        res == IF resolve THEN resolver_evento_id(ex.fecha, cal)
               ELSE [raised |-> FALSE, queried |-> FALSE, event_id |-> None,
                     opciones |-> <<>>]
        S3 == IF resolve THEN StoreResolution(S1, ex.fecha, res) ELSE S1
        shared == state_slots.cambios.kind = "dict"
                  /\ MergeSlots(state_slots, ex.P).cambios = state_slots.cambios
    IN [slots |-> S3,
        faltantes |-> Faltantes(intent_actual, S3),
        consumio |-> ConsumioPending(pending_message),
        raised |-> res.raised,
        queried |-> res.queried,
        alias |-> IF shared THEN [state_slots EXCEPT !.cambios = S1.cambios]
                  ELSE state_slots]

\* ------------------------------------------------------------------------
\* The conversation_state row and the session
\* ------------------------------------------------------------------------

Row(intent, slots, pending_intent, pending_message) ==
    [exists |-> TRUE, intent |-> intent, slots |-> slots,
     pending_intent |-> pending_intent, pending_message |-> pending_message]

NoRow ==
    [exists |-> FALSE, intent |-> None, slots |-> EmptySlots,
     pending_intent |-> None, pending_message |-> NoneText]

\* whatsApp.py 416-432: the row of the phone, created and committed when
\* there is none.
Loaded(d) == IF d.exists THEN d ELSE Row(None, EmptySlots, None, NoneText)

\* A flush that writes the attribute whenever it was assigned.
FlushAlways(stored, orig, new) == new

\* session.commit() for slots_json after `state.slots_json = new`.
\* conversation_state.py 31-32 maps the column as plain JSONB, so the
\* session does not see writes into the dict it loaded, and on flush it
\* sends the assigned value only if it differs from the dict that was the
\* attribute's value before the assignment, as that dict is now (orig).
\* `stored` is the value in the table.
Flush(stored, orig, new) == IF new = orig THEN stored ELSE new

\* ------------------------------------------------------------------------
\* What a turn reports
\* ------------------------------------------------------------------------

\* kind: the message sent ("crash" when the handler raised and sent none);
\* texto, prop: the text handed to extraer_slots and what it returned;
\* queried, executed: the calendar was queried, the executor was called;
\* call: the intent and the slots the executor was called with; failure:
\* whose exception ended the request, if one did; access: the status
\* ensure_access reported to the request ("ok" for every turn that got as
\* far as the dialogue).
NoCall == [intent |-> None, slots |-> EmptySlots]

Outcome(kind, faltantes, extracted, texto, prop, queried, executed) ==
    [kind |-> kind, faltantes |-> faltantes, extracted |-> extracted, texto |-> texto,
     prop |-> prop, queried |-> queried, executed |-> executed, call |-> NoCall,
     failure |-> "none", access |-> "ok"]

\* The request ended by an exception: of the calendar client (whatsApp.py
\* 243-248), of the executor (764-769), or of the loop that builds the
\* selection prompt (671-675, 744-748).
Failed(o, who) == [o EXCEPT !.failure = who]

\* whatsApp.py 486-491, 563-568, 691-696, 764-769: the executor is called
\* with the intent in force and the slots of the row object.
Called(o, intent, slots) == [o EXCEPT !.call = [intent |-> intent, slots |-> slots]]

Reply(kind, faltantes) ==
    Outcome(kind, faltantes, FALSE, NoneText, NothingExtracted, FALSE, FALSE)

NoOut == Reply("none", <<>>)

\* ejecutar_accion_calendar is called at whatsApp.py 486, 563, 691, 764 and
\* defined nowhere in the repository: it returns (resultado, resumen), the
\* action done or rejected, or it raises.
ExecOutcomes == {"done", "rejected", "raise"}

\* ------------------------------------------------------------------------
\* The calendar
\* ------------------------------------------------------------------------

EventIds == <<"e1", "e2", "e3", "e4", "e5", "e6">>

Ev(i, status, allday) ==
    [id |-> EventIds[i], summary |-> IF i = 2 THEN "" ELSE "Reunion", status |-> status,
     allday |-> allday, start |-> 8 + i, end |-> 9 + i]

\* The answers of calendar_client.list_events for a day: n timed events,
\* the largest list with its first event cancelled, the largest list with
\* its last event a day-long one, or a call that raises.
CalendarAnswers ==
    {[ok |-> TRUE, items |-> [i \in 1..n |-> Ev(i, "confirmed", FALSE)]] :
        n \in 0..MaxEvents}
    \cup {[ok |-> TRUE,
           items |-> [i \in 1..MaxEvents |->
                        Ev(i, IF i = 1 THEN "cancelled" ELSE "confirmed", FALSE)]],
          [ok |-> TRUE,
           items |-> [i \in 1..MaxEvents |-> Ev(i, "confirmed", i = MaxEvents)]],
          [ok |-> FALSE, items |-> <<>>]}

\* The calendar is asked only when the resolver gets a well-formed date.
CalendarFor(intent, S, ex) ==
    IF NeedsResolver(intent, MergeAll(intent, S, ex.P, ex.cambios), ex.fecha)
       /\ ex.fecha \in IsoDates
    THEN CalendarAnswers
    ELSE {NoCalendar}

\* ------------------------------------------------------------------------
\* A turn from the extraction on (whatsApp.py 468-499, 517-583, 652-706,
\* 724-779)
\* ------------------------------------------------------------------------

WithAwaiting(S) == [S EXCEPT !.sc["awaiting"] = "event_selection"]

\* pre: the row as last committed; intent, S, pend, text: the arguments of
\* aplicar_extraccion_de_slots; byIndex: the selection prompt reads the
\* candidates by index (537-543) and not with .get (671-675, 744-748), which
\* a tuple does not have.
ExtractionTurn(pre, intent, S, pend, text, byIndex, ex, cal, exec) ==
    LET r == aplicar_extraccion_de_slots(intent, S, pend, ex, cal)
        texto == TextoTurno(pend, text)
        p1 == [pre EXCEPT !.intent = intent,
                          !.slots = Flush(pre.slots, r.alias, r.slots),
                          !.pending_message = IF r.consumio THEN NoneText ELSE @]
        m1 == [p1 EXCEPT !.slots = r.slots]
    IN IF r.raised
       THEN [db |-> pre,
             mem |-> [pre EXCEPT !.intent = intent, !.slots = r.alias],
             out |-> Failed(Outcome("crash", <<>>, TRUE, texto, ex, TRUE, FALSE), "calendar")]
       ELSE IF r.slots.opciones # <<>>
       THEN [db |-> p1,
             mem |-> [m1 EXCEPT !.slots = WithAwaiting(r.slots)],
             out |-> Failed(Outcome(IF byIndex THEN "selection" ELSE "crash", <<>>, TRUE,
                                    texto, ex, r.queried, FALSE),
                            IF byIndex THEN "none" ELSE "prompt")]
       ELSE IF r.faltantes # <<>>
       THEN [db |-> p1, mem |-> m1,
             out |-> Outcome("missing", r.faltantes, TRUE, texto, ex, r.queried, FALSE)]
       ELSE IF exec = "raise"
       THEN [db |-> p1, mem |-> m1,
             out |-> Failed(Called(Outcome("crash", <<>>, TRUE, texto, ex, r.queried, TRUE),
                                   intent, r.slots), "executor")]
       ELSE [db |-> Row(None, Flush(p1.slots, r.slots, EmptySlots), None, NoneText),
             mem |-> Row(None, EmptySlots, None, NoneText),
             out |-> Called(Outcome("executed", <<>>, TRUE, texto, ex, r.queried, TRUE),
                            intent, r.slots)]

\* ------------------------------------------------------------------------
\* Inbound messages
\* ------------------------------------------------------------------------

\* The bodies of the inbound text messages (whatsApp.py 405-413).
Messages ==
    {<<>>, <<"hola">>, <<"si">>, <<"sí">>, <<" ", "SI", " ">>, <<"no">>, <<"de", "una">>,
     <<"crear">>, <<"cancelar">>, <<"mover">>, <<"disponibilidad">>,
     <<"0">>, <<"1">>, <<"2">>, <<"3">>, <<"4">>, <<"5">>,
     <<"hola", "2">>, <<"2", "3">>, <<"cancelar", "crear">>}

\* ------------------------------------------------------------------------
\* Stored rows the handler may find
\* ------------------------------------------------------------------------
\* The handler is a function of the row it loads.  The rows below are the
\* rows of the data model of conversation_state.py as whatsApp.py reads them
\* (intent labels 'crear', 'consultar_disponibilidad', 'actualizar',
\* 'cancelar' at 156-189 and 593-613; "awaiting" with "opciones_evento" at
\* 435-444): no row, an idle row, a row per intent with some of its slots
\* filled, a row waiting for the choice of an event, and a row with a
\* proposed switch of intent.

Intents == {"crear", "consultar_disponibilidad", "actualizar", "cancelar"}

CrearSlots ==
    {[EmptySlots EXCEPT !.sc["titulo"] = t, !.sc["inicio"] = i, !.sc["duracion"] = d] :
        t \in {ABSENT, "A"}, i \in {ABSENT, "t1"}, d \in {ABSENT, "1h"}}

ConsultarSlots ==
    {[EmptySlots EXCEPT !.sc["desde"] = d, !.sc["hasta"] = h] :
        d \in {ABSENT, "t1"}, h \in {ABSENT, "t2"}}

StoredCambios == {CambiosAbsent, CambiosDict([NoChanges EXCEPT !["titulo"] = "A"])}

\* Slots of 'actualizar' and 'cancelar' before the event is known.
SearchSlots(cs) ==
    {[EmptySlots EXCEPT !.sc["fecha_objetivo"] = f, !.cambios = c] :
        f \in {ABSENT, "2025-03-10"}, c \in cs}

\* Slots once resolver_evento_id found exactly one event.
ResolvedSlots(cs) ==
    {[EmptySlots EXCEPT !.sc["fecha_objetivo"] = "2025-03-10", !.sc["event_id"] = "e1",
                        !.cambios = c] : c \in cs}

\* The candidate lists resolver_evento_id returns.
CandidateLists ==
    {resolver_evento_id("2025-03-10", c).opciones : c \in CalendarAnswers} \ {<<>>}

\* Slots while the user is asked to choose among candidates.
AwaitingSlots(cs) ==
    {WithAwaiting([EmptySlots EXCEPT !.sc["fecha_objetivo"] = "2025-03-10",
                                     !.opciones = o, !.cambios = c]) :
        o \in CandidateLists, c \in cs}

SlotsOf(intent) ==
    CASE intent = "crear" -> CrearSlots
      [] intent = "consultar_disponibilidad" -> ConsultarSlots
      [] intent = "actualizar" -> SearchSlots(StoredCambios) \cup ResolvedSlots(StoredCambios)
      [] intent = "cancelar" -> SearchSlots({CambiosAbsent}) \cup ResolvedSlots({CambiosAbsent})

AwaitingSlotsOf(intent) ==
    CASE intent = "actualizar" -> AwaitingSlots(StoredCambios)
      [] intent = "cancelar" -> AwaitingSlots({CambiosAbsent})
      [] OTHER -> {}

\* The message that proposed the switch to an intent.
ProposingMessage(intent) ==
    CASE intent = "crear" -> <<"crear">>
      [] intent = "consultar_disponibilidad" -> <<"disponibilidad">>
      [] intent = "actualizar" -> <<"mover">>
      [] intent = "cancelar" -> <<"cancelar">>

StoredRows ==
    {NoRow, Row(None, EmptySlots, None, NoneText)}
    \cup UNION {{Row(i, s, None, NoneText) : s \in SlotsOf(i) \cup AwaitingSlotsOf(i)} :
                  i \in Intents}
    \cup UNION {{Row(i, s, p, ProposingMessage(p)) : s \in SlotsOf(i), p \in Intents \ {i}} :
                  i \in Intents}

\* ------------------------------------------------------------------------
\* State
\* ------------------------------------------------------------------------

VARIABLES
    db,     \* the conversation_state row of the phone, as stored
    pc,     \* "idle" between requests, "handling" while receive runs,
            \* "responded" when it has returned
    msg,    \* the text of the message being handled
    out,    \* what the last turn did
    mem,    \* the row object of the last turn's session when it ended
    mg      \* the inputs and results of a function taken alone (the merge
            \* step, the resolver)

vars == <<db, pc, msg, out, mem, mg>>

NoMerge ==
    [phase |-> "off", intent |-> None, S |-> EmptySlots, P |-> EmptySlots,
     cambios |-> CambiosNull, merged |-> EmptySlots, once |-> EmptySlots,
     twice |-> EmptySlots]

Init ==
    /\ db \in StoredRows
    /\ pc = "idle"
    /\ msg = <<>>
    /\ out = NoOut
    /\ mem = NoRow
    /\ mg = NoMerge

\* A handler without the selection branch.
AwaitingNever(st) == FALSE

\* whatsApp.py 435
Awaiting(st) == st.slots.sc["awaiting"] = "event_selection"

\* A handler without the confirmation branch.
HasPendingNever(st) == FALSE

\* whatsApp.py 503
HasPending(st) == st.pending_intent \notin {None, ""}

\* What ensure_access finds for the phone: no credentials, a token that is
\* still valid, or an expired one with each result of try_refresh.
AccessCases ==
    {"no_credentials", "valid", "refreshed", "invalid_grant", "transient_error",
     "config_error"}

\* google_auth_store.py 199-256: the decision for each case.
ensure_access(c) ==
    CASE c = "no_credentials" ->
           [status |-> "no_credentials", action |-> "send_link", reason |-> "no_credentials"]
      [] c = "valid" -> [status |-> "ok", action |-> "none", reason |-> "access_valid"]
      [] c = "refreshed" -> [status |-> "ok", action |-> "none", reason |-> "refreshed"]
      [] c = "invalid_grant" ->
           [status |-> "need_reconsent", action |-> "send_link",
            reason |-> "refresh_invalid_grant"]
      [] c = "transient_error" ->
           [status |-> "need_refresh", action |-> "none",
            reason |-> "refresh_transient_error"]
      [] c = "config_error" ->
           [status |-> "need_refresh", action |-> "none", reason |-> "config_error"]

\* A gate that lets every decision through.
GatePassesAlways(decision) == TRUE

\* whatsApp.py 352, 392: neither of the two early returns is taken.
GatePasses(decision) == decision.action # "send_link" /\ decision.status # "need_refresh"

\* The webhook receives a text message (whatsApp.py 324-413) and the gate
\* lets it through.
Arrive(m) ==
    /\ pc = "idle"
    /\ \E c \in AccessCases :
          /\ GatePasses(ensure_access(c))
          /\ out' = [NoOut EXCEPT !.access = ensure_access(c).status]
    /\ pc' = "handling"
    /\ msg' = m
    /\ mem' = NoRow
    /\ UNCHANGED <<db, mg>>

\* whatsApp.py 351-398: the gate ends the request: with the consent link or
\* the reminder that it was sent (the cooldown decides which), or with the
\* notice of a technical problem.  The text of the message is not read.
Stopped ==
    /\ pc = "idle"
    /\ \E c \in AccessCases :
          LET decision == ensure_access(c) IN
          /\ ~GatePasses(decision)
          /\ \E kind \in IF decision.action = "send_link" THEN {"link", "link_reminder"}
                          ELSE {"retry_later"} :
                out' = [Reply(kind, <<>>) EXCEPT !.access = decision.status]
    /\ pc' = "responded"
    /\ msg' = <<>>
    /\ mem' = NoRow
    /\ UNCHANGED <<db, mg>>

\* The end of a turn: d is stored, m is the row object, o what was done.
Finish(d, m, o) ==
    /\ db' = d
    /\ mem' = m
    /\ out' = o
    /\ pc' = "responded"
    /\ UNCHANGED <<msg, mg>>

\* db.py 32-43: the request is over, its session is closed and the row
\* object dropped; the next request loads the row again.
Return ==
    /\ pc = "responded"
    /\ pc' = "idle"
    /\ msg' = <<>>
    /\ out' = NoOut
    /\ mem' = NoRow
    /\ UNCHANGED <<db, mg>>

\* whatsApp.py 443-445: the number names one of the candidates
ValidChoice(st, d) == d # None /\ IntOf(d) >= 1 /\ IntOf(d) <= Len(st.slots.opciones)

\* whatsApp.py 461-463, on the dict the session loaded
Chosen(S, k) ==
    [S EXCEPT !.sc["event_id"] = S.opciones[k].id, !.opciones = <<>>,
              !.sc["awaiting"] = ABSENT]

\* whatsApp.py 435-447: the user is choosing an event and the message has
\* no number or a number that names no candidate.
SelectReprompt ==
    LET st == Loaded(db)
        d == FirstDigits(Strip(msg))
    IN /\ pc = "handling"
       /\ Awaiting(st)
       /\ ~ValidChoice(st, d)
       /\ Finish(st, st, Reply(IF d = None THEN "ask_number" ELSE "out_of_range", <<>>))

\* whatsApp.py 449-499: the user chose candidate k.
SelectValid ==
    LET st == Loaded(db)
        d == FirstDigits(Strip(msg))
    IN /\ pc = "handling"
       /\ Awaiting(st)
       /\ ValidChoice(st, d)
       /\ \E ex \in extraer_slots(st.intent, TextoTurno(NoneText, <<>>),
                                  Chosen(st.slots, IntOf(d))),
             exec \in ExecOutcomes :
             \E t \in {ExtractionTurn(st, st.intent, Chosen(st.slots, IntOf(d)), NoneText,
                                     <<>>, TRUE, ex, NoCalendar, exec)} :
                Finish(t.db, t.mem, t.out)

\* A switch that forgets to clear the proposal.
SwitchedKeepingPending(st) == [st EXCEPT !.intent = st.pending_intent, !.slots = EmptySlots]

\* whatsApp.py 510-513: the row committed when the switch is accepted.
Switched(st) ==
    [st EXCEPT !.intent = st.pending_intent, !.slots = EmptySlots, !.pending_intent = None]

\* whatsApp.py 508-583: the user accepts the proposed switch.
AffirmPending ==
    LET st == Loaded(db)
        p0 == Switched(st)
    IN /\ pc = "handling"
       /\ ~Awaiting(st)
       /\ HasPending(st)
       /\ NormalizedReply(msg) \in affirmatives
       /\ \E ex \in extraer_slots(p0.intent, TextoTurno(st.pending_message, msg),
                                  EmptySlots) :
          \E cal \in CalendarFor(p0.intent, EmptySlots, ex), exec \in ExecOutcomes :
             \E t \in {ExtractionTurn(p0, p0.intent, EmptySlots, st.pending_message, msg,
                                     TRUE, ex, cal, exec)} :
                Finish(t.db, t.mem, t.out)

\* A refusal that leaves the proposing message stored.
DeclinedKeepingMessage(st) == [st EXCEPT !.pending_intent = None]

\* whatsApp.py 587-588, 615: the row committed when the switch is declined.
Declined(st) == [st EXCEPT !.pending_intent = None, !.pending_message = NoneText]

\* whatsApp.py 585-624: the user declines the proposed switch.
RejectPending ==
    LET st == Loaded(db)
        kept == Declined(st)
    IN /\ pc = "handling"
       /\ ~Awaiting(st)
       /\ HasPending(st)
       /\ NormalizedReply(msg) \notin affirmatives
       /\ NormalizedReply(msg) \in negatives
       /\ Finish(kept, kept, Reply("summary", FaltantesNegativo(st.intent, st.slots)))

\* whatsApp.py 626-630: neither yes nor no.
RepromptPending ==
    LET st == Loaded(db)
    IN /\ pc = "handling"
       /\ ~Awaiting(st)
       /\ HasPending(st)
       /\ NormalizedReply(msg) \notin affirmatives
       /\ NormalizedReply(msg) \notin negatives
       /\ Finish(st, st, Reply("confirm_again", <<>>))

\* whatsApp.py 635-642: no intent in force and none in the message.
AskIntent ==
    LET st == Loaded(db)
    IN /\ pc = "handling"
       /\ ~Awaiting(st)
       /\ ~HasPending(st)
       /\ st.intent = None
       /\ detect_intent(msg) = None
       /\ Finish(st, st, Reply("ask_intent", <<>>))

\* whatsApp.py 644-706: the message names the first intent.
FirstIntent ==
    LET st == Loaded(db)
        detected == detect_intent(msg)
    IN /\ pc = "handling"
       /\ ~Awaiting(st)
       /\ ~HasPending(st)
       /\ st.intent = None
       /\ detected # None
       /\ \E ex \in extraer_slots(detected, TextoTurno(NoneText, msg), st.slots) :
          \E cal \in CalendarFor(detected, st.slots, ex), exec \in ExecOutcomes :
             \E t \in {ExtractionTurn(st, detected, st.slots, NoneText, msg, FALSE,
                                     ex, cal, exec)} :
                Finish(t.db, t.mem, t.out)

\* A switch made without asking.
ProposedSwitched(st, detected, text) == [st EXCEPT !.intent = detected, !.slots = EmptySlots]

\* whatsApp.py 712-714: the row committed with the proposal.
Proposed(st, detected, text) ==
    [st EXCEPT !.pending_intent = detected, !.pending_message = text]

\* whatsApp.py 710-719: the message names another intent than the one in
\* force.
ProposeSwitch ==
    LET st == Loaded(db)
        detected == detect_intent(msg)
        proposed == Proposed(st, detected, msg)
    IN /\ pc = "handling"
       /\ ~Awaiting(st)
       /\ ~HasPending(st)
       /\ st.intent # None
       /\ detected # None
       /\ detected # st.intent
       /\ Finish(proposed, proposed, Reply("proposal", <<>>))

\* whatsApp.py 722-779: the message goes on with the intent in force.
SameIntent ==
    LET st == Loaded(db)
        detected == detect_intent(msg)
    IN /\ pc = "handling"
       /\ ~Awaiting(st)
       /\ ~HasPending(st)
       /\ st.intent # None
       /\ (detected = None \/ detected = st.intent)
       /\ \E ex \in extraer_slots(st.intent, TextoTurno(st.pending_message, msg),
                                  st.slots) :
          \E cal \in CalendarFor(st.intent, st.slots, ex), exec \in ExecOutcomes :
             \E t \in {ExtractionTurn(st, st.intent, st.slots, st.pending_message, msg,
                                     FALSE, ex, cal, exec)} :
                Finish(t.db, t.mem, t.out)

Next ==
    \/ \E m \in Messages : Arrive(m)
    \/ Stopped
    \/ SelectReprompt
    \/ SelectValid
    \/ AffirmPending
    \/ RejectPending
    \/ RepromptPending
    \/ AskIntent
    \/ FirstIntent
    \/ ProposeSwitch
    \/ SameIntent
    \/ Return

Spec == Init /\ [][Next]_vars

\* ------------------------------------------------------------------------
\* The merge step taken alone (whatsApp.py 117-136)
\* ------------------------------------------------------------------------

\* Stored slots: a key is absent, stored empty in one of the four ways the
\* merge knows, or stored with a value.
MergeStored ==
    {[EmptySlots EXCEPT !.sc["titulo"] = t, !.sc["inicio"] = i, !.cambios = c] :
        t \in {ABSENT, NULL, "", "[]", "{}", "A"},
        i \in {ABSENT, "", "t0"},
        c \in {CambiosAbsent, CambiosNull, CambiosDict(NoChanges),
               CambiosDict([NoChanges EXCEPT !["titulo"] = "A"]),
               CambiosDict([NoChanges EXCEPT !["titulo"] = ""])}}

\* slots_propuestos: a key is not proposed, proposed as None, proposed
\* empty or proposed with a value.
MergeProposed ==
    {[EmptySlots EXCEPT !.sc["titulo"] = t, !.sc["inicio"] = i, !.cambios = c] :
        t \in {ABSENT, NULL, "", "A", "B"},
        i \in {ABSENT, "t1"},
        c \in {CambiosAbsent, CambiosDict([NoChanges EXCEPT !["titulo"] = "B"])}}

\* The third result of extraer_slots: None, {} or a dict of changes.
MergeChanges ==
    {CambiosNull, CambiosDict(NoChanges),
     CambiosDict([NoChanges EXCEPT !["titulo"] = "B"]),
     CambiosDict([NoChanges EXCEPT !["inicio"] = "t2"]),
     CambiosDict([NoChanges EXCEPT !["titulo"] = NULL, !["inicio"] = "t2"])}

MergeInit ==
    /\ db = NoRow
    /\ pc = "idle"
    /\ msg = <<>>
    /\ out = NoOut
    /\ mem = NoRow
    /\ \E i \in {"actualizar", "crear"}, S \in MergeStored, P \in MergeProposed,
          c \in MergeChanges :
          mg = [NoMerge EXCEPT !.phase = "in", !.intent = i, !.S = S, !.P = P,
                               !.cambios = c]

\* The merge is applied to the inputs, then once more to its own result.
ApplyMerge ==
    /\ mg.phase = "in"
    /\ mg' = [mg EXCEPT
                !.phase = "out",
                !.merged = MergeSlots(mg.S, mg.P),
                !.once = MergeAll(mg.intent, mg.S, mg.P, mg.cambios),
                !.twice = MergeAll(mg.intent,
                                   MergeAll(mg.intent, mg.S, mg.P, mg.cambios),
                                   mg.P, mg.cambios)]
    /\ UNCHANGED <<db, pc, msg, out, mem>>

MergeNext == ApplyMerge

SpecMerge == MergeInit /\ [][MergeNext]_vars

\* ------------------------------------------------------------------------
\* The resolver taken alone (whatsApp.py 194-310)
\* ------------------------------------------------------------------------

\* Largest number of events of one day the resolver is given.
MaxDayEvents == 4

\* The numbers the selection re-prompts offer (whatsApp.py 439, 446:
\* "1, 2 o 3").
MaxCandidates == 3

EventKinds == {"carried", "allday", "timed", "cancelled"}

\* The i-th event of a day's list: one that began the evening before and
\* runs into the day, a day-long one (it opens at the day's midnight), a
\* timed one, or a timed one that was cancelled.
DayEvent(i, kind) ==
    CASE kind = "carried" ->
           [Ev(i, "confirmed", FALSE) EXCEPT !.start = i - (MaxDayEvents + 1), !.end = i]
      [] kind = "allday" ->
           [Ev(i, "confirmed", TRUE) EXCEPT !.start = 0, !.end = 24]
      [] kind = "timed" -> Ev(i, "confirmed", FALSE)
      [] kind = "cancelled" -> Ev(i, "cancelled", FALSE)

\* whatsApp.py 243-248: order_by="startTime", the list comes ordered by
\* start.
OrderedByStart(items) ==
    \A i \in 1..Len(items) : \A j \in i..Len(items) : items[i].start <= items[j].start

\* The answers of calendar_client.list_events the resolver is tried on:
\* every list of up to MaxDayEvents events ordered by start, and a call
\* that raises.
ResolverCalendars ==
    {c \in UNION {{[ok |-> TRUE, items |-> [i \in 1..n |-> DayEvent(i, ks[i])]] :
                     ks \in [1..n -> EventKinds]} : n \in 0..MaxDayEvents} :
        OrderedByStart(c.items)}
    \cup {[ok |-> FALSE, items |-> <<>>]}

\* The date criteria the resolver is tried on (it is not called without
\* one, whatsApp.py 139-140): those of the extractor and a date of ISO
\* shape that is no day of the calendar.
ResolverDates == (FechaCriteria \ {None}) \cup {"2025-13-40"}

NoResult == [raised |-> FALSE, queried |-> FALSE, event_id |-> None, opciones |-> <<>>]

ResolverInit ==
    /\ db = NoRow
    /\ pc = "idle"
    /\ msg = <<>>
    /\ out = NoOut
    /\ mem = NoRow
    /\ \E f \in ResolverDates, c \in ResolverCalendars :
          mg = [phase |-> "in", fecha |-> f, cal |-> c, res |-> NoResult]

\* The resolver is called on the inputs.
ApplyResolver ==
    /\ mg.phase = "in"
    /\ mg' = [mg EXCEPT !.phase = "out", !.res = resolver_evento_id(mg.fecha, mg.cal)]
    /\ UNCHANGED <<db, pc, msg, out, mem>>

ResolverNext == ApplyResolver

SpecResolver == ResolverInit /\ [][ResolverNext]_vars

\* ------------------------------------------------------------------------
\* The classifier taken alone (intent_detector.py 85-114)
\* ------------------------------------------------------------------------

\* Longest text, in tokens, the classifier is given.
MaxWords == 3

\* The tokens of those texts: a keyword of each rule set, a keyword in
\* capitals, one with an accent, a word of no rule set and a blank.
DetectWords ==
    {"crear", "CREAR", "agendá", "cancelar", "mover", "disponibilidad", "hola", " "}

DetectInit ==
    /\ db = NoRow
    /\ pc = "idle"
    /\ msg = <<>>
    /\ out = NoOut
    /\ mem = NoRow
    /\ \E n \in 0..MaxWords : \E t \in [1..n -> DetectWords] :
          mg = [phase |-> "in", text |-> t, detected |-> None]

\* The classifier is called on the text.
ApplyDetect ==
    /\ mg.phase = "in"
    /\ mg' = [mg EXCEPT !.phase = "out", !.detected = detect_intent(mg.text)]
    /\ UNCHANGED <<db, pc, msg, out, mem>>

DetectNext == ApplyDetect

SpecDetect == DetectInit /\ [][DetectNext]_vars

\* ------------------------------------------------------------------------
\* Two requests of one phone at once (whatsApp.py 415-432, 632-642, 722-779)
\* ------------------------------------------------------------------------

\* Each request has a session of its own (db.py 25-30, 38) and is suspended
\* at every await, so the steps of two requests interleave: the SELECT of
\* the row, the INSERT of a missing row, and the rest of the turn with its
\* commits.  No lock is taken and the SELECT is not FOR UPDATE.  The two
\* messages name no intent; what the extractor finds in each is drawn with
\* the initial state.

Requests == {1, 2}

QuietMessage == <<"hola">>

\* whatsApp.py 632-642, 722-779: the turn of a message that names no intent
\* on a row with no proposal and no selection pending, with the calendar
\* not needed and the executor sound.
QuietTurn(row, ex) ==
    IF row.intent = None
    THEN [db |-> row, mem |-> row, out |-> Reply("ask_intent", <<>>)]
    ELSE ExtractionTurn(row, row.intent, row.slots, row.pending_message, QuietMessage,
                        FALSE, ex, NoCalendar, "done")

\* The UPDATE a commit issues sets the columns the session changed since it
\* loaded the row and leaves the other columns as they are stored.
WriteBack(stored, loaded, new) ==
    [stored EXCEPT
        !.intent = IF new.intent # loaded.intent THEN new.intent ELSE @,
        !.slots = IF new.slots # loaded.slots THEN new.slots ELSE @,
        !.pending_intent = IF new.pending_intent # loaded.pending_intent
                           THEN new.pending_intent ELSE @,
        !.pending_message = IF new.pending_message # loaded.pending_message
                            THEN new.pending_message ELSE @]

RaceInit ==
    /\ db \in {NoRow} \cup {Row("crear", S, None, NoneText) : S \in CrearSlots}
    /\ pc = "idle"
    /\ msg = <<>>
    /\ out = NoOut
    /\ mem = NoRow
    /\ \E e1 \in extraer_slots("crear", QuietMessage, EmptySlots),
          e2 \in extraer_slots("crear", QuietMessage, EmptySlots) :
          mg = [phase |-> "race", row0 |-> db, rows |-> IF db.exists THEN 1 ELSE 0,
                req |-> [r \in Requests |->
                           [pc |-> "new", state |-> NoRow,
                            ex |-> IF r = 1 THEN e1 ELSE e2, sent |-> "none"]]]

\* whatsApp.py 416-419: the SELECT of the phone's row.
Load(r) ==
    /\ mg.req[r].pc = "new"
    /\ mg' = [mg EXCEPT !.req[r].state = db,
                        !.req[r].pc = IF db.exists THEN "loaded" ELSE "creating"]
    /\ UNCHANGED <<db, pc, msg, out, mem>>

\* whatsApp.py 420-432: the INSERT of an empty row and its commit.
\* whatsapp_phone is unique (conversation_state.py 20-26): when the row was
\* inserted meanwhile the commit raises IntegrityError, which nothing
\* catches.
Create(r) ==
    /\ mg.req[r].pc = "creating"
    /\ IF db.exists
       THEN /\ mg' = [mg EXCEPT !.req[r].pc = "crashed"]
            /\ db' = db
       ELSE /\ db' = Row(None, EmptySlots, None, NoneText)
            /\ mg' = [mg EXCEPT !.rows = @ + 1, !.req[r].pc = "loaded",
                                !.req[r].state = Row(None, EmptySlots, None, NoneText)]
    /\ UNCHANGED <<pc, msg, out, mem>>

\* whatsApp.py 632-779: the turn, on the row object the request loaded.
Handle(r) ==
    /\ mg.req[r].pc = "loaded"
    /\ \E t \in {QuietTurn(mg.req[r].state, mg.req[r].ex)} :
          /\ db' = WriteBack(db, mg.req[r].state, t.db)
          /\ mg' = [mg EXCEPT !.req[r].pc = "responded", !.req[r].sent = t.out.kind]
    /\ UNCHANGED <<pc, msg, out, mem>>

RaceNext == \E r \in Requests : Load(r) \/ Create(r) \/ Handle(r)

SpecRace == RaceInit /\ [][RaceNext]_vars

\* ------------------------------------------------------------------------
\* The consent-link cooldown (whatsApp.py 30-32, 355-390)
\* ------------------------------------------------------------------------
\* Two requests of one phone for which ensure_access decided send_link.
\* The handler runs on one event loop and gives way at every await: the
\* cooldown test reads the clock and the cache in one step, and the cache is
\* written when `await send_text` has returned.  time.monotonic() starts
\* from an arbitrary value and never goes back; the clock moves in steps of
\* half a cooldown.

\* whatsApp.py 32
LINK_COOLDOWN_SECONDS == 120

ClockStep == LINK_COOLDOWN_SECONDS \div 2

\* whatsApp.py 31: _LAST_LINK_SENT_AT has no entry for the phone.
NoEntry == [set |-> FALSE, at |-> 0]

\* whatsApp.py 357: _LAST_LINK_SENT_AT.get(phone, 0.0)
LastSent(cache) == IF cache.set THEN cache.at ELSE 0

\* whatsApp.py 360: `if now - last < LINK_COOLDOWN_SECONDS`
InCooldown(cache, now) == now - LastSent(cache) < LINK_COOLDOWN_SECONDS

LinkInit ==
    /\ db = NoRow
    /\ pc = "idle"
    /\ msg = <<>>
    /\ out = NoOut
    /\ mem = NoRow
    /\ \E k \in 0..MaxTicks :
          mg = [phase |-> "link", clock |-> k * ClockStep, ticks |-> 0,
                cache |-> NoEntry, links |-> <<>>,
                req |-> [r \in Requests |->
                           [pc |-> "new", now |-> 0, hit |-> FALSE, reply |-> "none"]]]

\* time.monotonic() moves on.
Advance ==
    /\ mg.ticks < MaxTicks
    /\ mg' = [mg EXCEPT !.clock = @ + ClockStep, !.ticks = @ + 1]
    /\ UNCHANGED <<db, pc, msg, out, mem>>

\* whatsApp.py 355-365: the clock and the cache are read; within the
\* cooldown the reminder is sent and the request ends, otherwise the link
\* is built and handed to send_text.
CheckCooldown(r) ==
    /\ mg.req[r].pc = "new"
    /\ mg' = [mg EXCEPT
                !.req[r] = [pc |-> IF InCooldown(mg.cache, mg.clock) THEN "done" ELSE "sending",
                            now |-> mg.clock,
                            hit |-> mg.cache.set,
                            reply |-> IF InCooldown(mg.cache, mg.clock)
                                      THEN "link_reminder" ELSE "none"]]
    /\ UNCHANGED <<db, pc, msg, out, mem>>

\* whatsApp.py 367-390: the link is built and sent; send_text has returned; the cache takes the time
\* read before the send.
SendLink(r) ==
    /\ mg.req[r].pc = "sending"
    /\ mg' = [mg EXCEPT !.links = Append(@, mg.req[r].now),
                        !.cache = [set |-> TRUE, at |-> mg.req[r].now],
                        !.req[r].pc = "done",
                        !.req[r].reply = "link"]
    /\ UNCHANGED <<db, pc, msg, out, mem>>

LinkNext == Advance \/ \E r \in Requests : CheckCooldown(r) \/ SendLink(r)

SpecLink == LinkInit /\ [][LinkNext]_vars

\* ------------------------------------------------------------------------
\* Google credentials: ensure_access, try_refresh, the OAuth callback
\* (services/google_auth_store.py, API/auth_google.py, core/google_oauth.py)
\* ------------------------------------------------------------------------
\* A google_credentials row is kept as: whether it exists, its refresh
\* token (NULL for None) and whether its access token is still valid with
\* the margin of is_access_valid.  The state of a consent link is the
\* payload, the time it was signed and the signature over both.

Phones == {"p1", "p2"}

\* auth_google.py 38: max_age_seconds
MAX_STATE_AGE == 600

StateStep == MAX_STATE_AGE \div 2

NoCred == [exists |-> FALSE, refresh_token |-> NULL, valid |-> FALSE]

Cred(refresh_token, valid) ==
    [exists |-> TRUE, refresh_token |-> refresh_token, valid |-> valid]

\* `not refresh_token`
NoToken(refresh_token) == refresh_token \in {NULL, ""}

\* google_oauth.py 115-124, 151-157: what a token response is turned into.
\* Google sends a refresh token with the first consent and may leave it
\* out afterwards.
TokenData ==
    {[access_token |-> "a", refresh_token |-> rt] : rt \in {NULL, "r1", "r2"}}
    \cup {[access_token |-> "", refresh_token |-> NULL]}

NoTokenData == [access_token |-> "", refresh_token |-> NULL]

Answer(kind, status, error, td) ==
    [kind |-> kind, status |-> status, error |-> error, td |-> td]

NoAnswer == Answer("none", 0, "", NoTokenData)

\* The answers of the token endpoint: tokens, an HTTP error status with its
\* error code, a timeout or network error, or an error of the HTTP client
\* that is none of these.
GoogleAnswers ==
    {Answer("tokens", 200, "", td) : td \in TokenData}
    \cup {Answer("http", 400, "invalid_grant", NoTokenData),
          Answer("http", 400, "invalid_request", NoTokenData),
          Answer("http", 401, "invalid_client", NoTokenData),
          Answer("http", 500, "", NoTokenData),
          Answer("network", 0, "", NoTokenData),
          Answer("protocol", 0, "", NoTokenData)}

\* google_oauth.py 80-124: the answers to the exchange of a code.
ExchangeAnswers ==
    {ans \in GoogleAnswers : ans.kind = "tokens" \/ ans.error = "invalid_grant"}

\* An update that writes the refresh token whatever the response carries.
UpsertOverwriting(cred, token_data) ==
    [raised |-> token_data.access_token = "",
     cred |-> IF token_data.access_token = "" THEN cred
              ELSE Cred(token_data.refresh_token, TRUE)]

\* google_auth_store.py 61-122.  The tokens come with expires_at just
\* computed from expires_in.
upsert_google_tokens(cred, token_data) ==
    IF token_data.access_token = ""
    THEN [raised |-> TRUE, cred |-> cred]
    ELSE IF ~cred.exists
    THEN [raised |-> FALSE, cred |-> Cred(token_data.refresh_token, TRUE)]
    ELSE [raised |-> FALSE,
          cred |-> [cred EXCEPT !.valid = TRUE,
                                !.refresh_token = IF NoToken(token_data.refresh_token)
                                                  THEN @ ELSE token_data.refresh_token]]

\* A classification that takes every failed refresh for a broken grant.
TryRefreshReconsent(cred, ans) ==
    IF ~NoToken(cred.refresh_token) /\ ans.kind = "tokens" /\ ans.td.access_token # ""
    THEN [result |-> "ok", cred |-> Cred(cred.refresh_token, TRUE)]
    ELSE [result |-> "invalid_grant", cred |-> cred]

\* google_auth_store.py 143-184.  "raised" is an exception that try_refresh
\* does not catch.
try_refresh(cred, ans) ==
    IF NoToken(cred.refresh_token)
    THEN [result |-> "invalid_grant", cred |-> cred]
    ELSE IF ans.kind = "tokens"
    THEN LET token_data == [ans.td EXCEPT !.refresh_token =
                                IF NoToken(@) THEN cred.refresh_token ELSE @]
             stored == upsert_google_tokens(cred, token_data)
         IN IF stored.raised THEN [result |-> "raised", cred |-> cred]
            ELSE [result |-> "ok", cred |-> stored.cred]
    ELSE IF ans.kind = "http"
    THEN [result |-> IF ans.status = 400 /\ ans.error = "invalid_grant" THEN "invalid_grant"
                     ELSE IF ans.status >= 500 THEN "transient_error"
                     ELSE "config_error",
          cred |-> cred]
    ELSE IF ans.kind = "network"
    THEN [result |-> "transient_error", cred |-> cred]
    ELSE [result |-> "raised", cred |-> cred]

\* google_auth_store.py 199-223: which of the cases of ensure_access the
\* stored credentials and the answer to the refresh make.
AccessCase(cred, ans) ==
    IF ~cred.exists THEN "no_credentials"
    ELSE IF cred.valid THEN "valid"
    ELSE IF try_refresh(cred, ans).result = "ok" THEN "refreshed"
    ELSE try_refresh(cred, ans).result

NoDecision == [status |-> "raised", action |-> "none", reason |-> "raised"]

\* google_oauth.py 17-21, 29: the signature of the serializer, over the
\* payload and the time of signing, under the secret key.
Sign(key, phone, ts) == [key |-> key, phone |-> phone, ts |-> ts]

\* google_oauth.py 26-29
build_state(phone, now) ==
    [phone |-> phone, ts |-> now, sig |-> Sign("SECRET_KEY", phone, now)]

\* No `state` parameter in the request.
NoState == [phone |-> "", ts |-> 0, sig |-> Sign("", "", 0)]

\* A parse that takes the payload without looking at the age.
ParseStateAnyAge(state, max_age_seconds, now) ==
    IF state = NoState \/ state.sig # Sign("SECRET_KEY", state.phone, state.ts)
    THEN NULL ELSE state.phone

\* google_oauth.py 35-44 with auth_google.py 39: the phone of the payload,
\* or NULL for the empty dict.
parse_State(state, max_age_seconds, now) ==
    IF state = NoState THEN NULL
    ELSE IF state.sig # Sign("SECRET_KEY", state.phone, state.ts) THEN NULL
    ELSE IF now - state.ts > max_age_seconds \/ now - state.ts < 0 THEN NULL
    ELSE state.phone

\* The states a callback request may carry when `link` is the state of the
\* last consent link: none, the link's, the link's with another phone or
\* with the time moved to now, and one signed with another key.
CallbackStates(link, now) ==
    {NoState, link}
    \cup {[link EXCEPT !.phone = p] : p \in Phones}
    \cup {[link EXCEPT !.ts = now]}
    \cup {[phone |-> p, ts |-> now, sig |-> Sign("guess", p, now)] : p \in Phones}

\* auth_google.py 28-58: the status of the response, whether the code was
\* exchanged, and the credentials stored afterwards.
callback(state, code, ans, creds, now) ==
    LET phone == parse_State(state, MAX_STATE_AGE, now) IN
    IF state = NoState \/ code = ""
    THEN [status |-> 400, exchanged |-> FALSE, creds |-> creds]
    ELSE IF phone = NULL
    THEN [status |-> 400, exchanged |-> FALSE, creds |-> creds]
    ELSE IF ans.kind # "tokens" \/ upsert_google_tokens(creds[phone], ans.td).raised
    THEN [status |-> 500, exchanged |-> TRUE, creds |-> creds]
    ELSE [status |-> 200, exchanged |-> TRUE,
          creds |-> [creds EXCEPT ![phone] = upsert_google_tokens(@, ans.td).cred]]

\* What the last request was and did.
Last(op, phone, before, state, code, ans, decision, status, exchanged) ==
    [op |-> op, phone |-> phone, before |-> before, state |-> state, code |-> code,
     ans |-> ans, decision |-> decision, status |-> status, exchanged |-> exchanged]

AuthIdle(creds) == Last("none", "", creds, NoState, "", NoAnswer, NoDecision, 0, FALSE)

AuthInit ==
    /\ db = NoRow
    /\ pc = "idle"
    /\ msg = <<>>
    /\ out = NoOut
    /\ mem = NoRow
    /\ mg = [phase |-> "auth", clock |-> 0, link |-> NoState,
             creds |-> [p \in Phones |-> NoCred],
             last |-> AuthIdle([p \in Phones |-> NoCred])]

\* Time passes: the state of the link ages.  The clock counts from the
\* moment the link was built.
Elapse ==
    /\ mg.link # NoState
    /\ mg.clock < MaxAgeSteps * StateStep
    /\ mg' = [mg EXCEPT !.clock = @ + StateStep, !.last = AuthIdle(mg.creds)]
    /\ UNCHANGED <<db, pc, msg, out, mem>>

\* google_auth_store.py 128-133: the access token of a phone comes within
\* the margin of its expiry.
Expire(p) ==
    /\ mg.creds[p].exists /\ mg.creds[p].valid
    /\ mg' = [mg EXCEPT !.creds[p].valid = FALSE,
                        !.last = AuthIdle([mg.creds EXCEPT ![p].valid = FALSE])]
    /\ UNCHANGED <<db, pc, msg, out, mem>>

\* auth_google.py 11-26: /auth/google/start builds the state of a link.
Start(p) ==
    /\ mg.link = NoState
    /\ mg' = [mg EXCEPT !.link = build_state(p, mg.clock), !.last = AuthIdle(mg.creds)]
    /\ UNCHANGED <<db, pc, msg, out, mem>>

\* whatsApp.py 352 with google_auth_store.py 199-256: a webhook request of
\* phone p asks for the decision.
Access(p) ==
    /\ \E ans \in GoogleAnswers :
          LET c == AccessCase(mg.creds[p], ans)
              after == IF c \in {"no_credentials", "valid"} THEN mg.creds[p]
                       ELSE try_refresh(mg.creds[p], ans).cred
          IN mg' = [mg EXCEPT
                      !.creds[p] = after,
                      !.last = Last("access", p, mg.creds, NoState, "", ans,
                                    IF c = "raised" THEN NoDecision ELSE ensure_access(c),
                                    IF c = "raised" THEN 500 ELSE 200, FALSE)]
    /\ UNCHANGED <<db, pc, msg, out, mem>>

\* auth_google.py 28-58: a request to /auth/google/callback.
Callback ==
    /\ \E state \in CallbackStates(mg.link, mg.clock), code \in {"", "c"},
          ans \in ExchangeAnswers :
          \E res \in {callback(state, code, ans, mg.creds, mg.clock)} :
             mg' = [mg EXCEPT
                      !.creds = res.creds,
                      !.last = Last("callback", state.phone, mg.creds, state, code, ans,
                                    NoDecision, res.status, res.exchanged)]
    /\ UNCHANGED <<db, pc, msg, out, mem>>

AuthNext == Elapse \/ Callback \/ \E p \in Phones : Expire(p) \/ Start(p) \/ Access(p)

SpecAuth == AuthInit /\ [][AuthNext]_vars

\* ------------------------------------------------------------------------
\* Properties
\* ------------------------------------------------------------------------

\* `v not in (None, "", [], {})` for a stored key
Filled(v) == ~Missing(v)

\* C1: the merge step fills only what is missing.  For every stored slots S
\* and proposal P, a key stored with a non-empty value keeps that value, and
\* a key absent or stored empty takes the proposed value when one is
\* proposed and it is not None.
C1_FillMissingOnly ==
    mg.phase = "out" =>
        /\ \A k \in ScalarKeys :
              /\ Filled(mg.S.sc[k]) => mg.merged.sc[k] = mg.S.sc[k]
              /\ Missing(mg.S.sc[k]) /\ mg.P.sc[k] \notin {ABSENT, NULL}
                    => mg.merged.sc[k] = mg.P.sc[k]
        /\ CambiosNonEmptyDict(mg.S.cambios) => mg.merged.cambios = mg.S.cambios
        /\ CambiosMissing(mg.S.cambios) /\ mg.P.cambios.kind = "dict"
              => mg.merged.cambios = mg.P.cambios

\* S = {titulo: A}, P = {titulo: B, inicio: t1} gave {titulo: A, inicio: t1}.
C1_Witness ==
    /\ mg.phase = "out"
    /\ mg.S = [EmptySlots EXCEPT !.sc["titulo"] = "A"]
    /\ mg.P = [EmptySlots EXCEPT !.sc["titulo"] = "B", !.sc["inicio"] = "t1"]
    /\ mg.merged = [EmptySlots EXCEPT !.sc["titulo"] = "A", !.sc["inicio"] = "t1"]

\* C2: the merge is idempotent.  Merging the same proposal and the same
\* changes a second time into the result of the first merge gives the
\* result of the first merge.
C2_IdempotentMerge == mg.phase = "out" => mg.twice = mg.once

\* Under 'actualizar', a proposal and changes that both took effect, applied
\* twice.
C2_Witness ==
    /\ mg.phase = "out"
    /\ mg.intent = "actualizar"
    /\ mg.once # mg.S
    /\ mg.once.sc # mg.S.sc
    /\ mg.once.cambios # mg.merged.cambios
    /\ mg.S.cambios.kind = "dict"
    /\ mg.twice = mg.once

\* receive ran from the arrival of a message to its response.
Handled == pc = "handling" /\ pc' = "responded"

\* The fields of ConversationState as the properties read them.
PendingSet(row) == row.pending_intent # None
AwaitingSet(row) == row.slots.sc["awaiting"] = "event_selection"
NormalTurn(row) == ~PendingSet(row) /\ ~AwaitingSet(row)
FullyReset(row) == row = Row(None, EmptySlots, None, NoneText)

\* C3: what a turn stored is kept by the next turn.  In a turn that neither
\* switches the intent nor executes, every slot other than the awaiting
\* marker and the candidate list that was stored with a non-empty value is
\* stored with the same value afterwards, the target date of an update or a
\* cancellation included.
C3_ConfirmedDataKept ==
    [][Handled /\ db'.intent = Loaded(db).intent /\ out'.kind # "executed"
         => /\ \A k \in ScalarKeys \ {"awaiting"} :
                  Filled(Loaded(db).slots.sc[k])
                      => db'.slots.sc[k] = Loaded(db).slots.sc[k]
            /\ \A c \in ChangeKeys :
                  Loaded(db).slots.cambios.kind = "dict"
                  /\ Filled(Loaded(db).slots.cambios.m[c])
                      => /\ db'.slots.cambios.kind = "dict"
                         /\ db'.slots.cambios.m[c] = Loaded(db).slots.cambios.m[c]]_vars

\* C4: a proposed switch and the choice of an event are never pending
\* together, neither in the stored row nor in the row object a turn ends
\* with.
C4_ModesExclusive ==
    /\ ~(PendingSet(db) /\ AwaitingSet(db))
    /\ ~(PendingSet(mem) /\ AwaitingSet(mem))

\* An accepted switch ended with the selection prompt.
C4_Witness ==
    /\ pc = "responded"
    /\ out.kind = "selection"
    /\ AwaitingSet(mem)
    /\ ~PendingSet(mem)
    /\ NormalizedReply(msg) \in affirmatives

\* C5: in a normal turn with an intent X in force, a message classified as
\* another intent Y stores Y as the proposed intent and the message text as
\* the proposing message, changes nothing else in the row, and neither
\* extracts, nor queries the calendar, nor executes.
C5_ProposalOnly ==
    [][Handled /\ NormalTurn(Loaded(db)) /\ Loaded(db).intent # None
         /\ detect_intent(msg) \notin {None, Loaded(db).intent}
         => /\ db' = [Loaded(db) EXCEPT !.pending_intent = detect_intent(msg),
                                        !.pending_message = msg]
            /\ out'.kind = "proposal"
            /\ ~out'.extracted /\ ~out'.queried /\ ~out'.executed]_vars

\* From 'crear' with a title, a message classified as an update.
C5_Witness ==
    /\ pc = "responded"
    /\ out.kind = "proposal"
    /\ db.intent = "crear"
    /\ db.slots.sc["titulo"] = "A"
    /\ db.pending_intent = "UPDATE_EVENT"
    /\ db.pending_message = <<"mover">>

\* What is extracted into empty slots: nothing of an earlier intent.
FreshSlots(S, P) ==
    \A k \in ScalarKeys \ {"fecha_objetivo", "event_id"} :
        S.sc[k] = MergeSlots(EmptySlots, P).sc[k]

\* C6: an affirmative reply to a proposed switch to Y.  Extraction runs on
\* the proposing message followed by the reply, and the turn ends either
\* with Y in force, no proposal and no proposing message stored and slots
\* that hold nothing of the earlier intent, or, when everything required was
\* there, with the action executed and the row reset.
C6_AffirmativeSwitch ==
    [][Handled /\ PendingSet(Loaded(db)) /\ ~AwaitingSet(Loaded(db))
         /\ Lower(Strip(msg)) \in affirmatives
         => /\ out'.extracted
            /\ out'.texto = Strip(db.pending_message) \o <<"\n">> \o Strip(msg)
            /\ \/ out'.kind = "executed" /\ FullyReset(db')
               \/ /\ db'.intent = db.pending_intent
                  /\ db'.pending_intent = None
                  /\ db'.pending_message = NoneText
                  /\ FreshSlots(db'.slots, out'.prop.P)]_vars

\* The calendar failed after the switch was committed: Y is in force and
\* the proposing message is still stored.
C6_Witness ==
    /\ pc = "responded"
    /\ out.kind = "crash"
    /\ out.queried
    /\ Lower(Strip(msg)) \in affirmatives
    /\ db.intent = "actualizar"
    /\ db.slots = EmptySlots
    /\ db.pending_intent = None
    /\ db.pending_message = <<"mover">>

Range(seq) == {seq[i] : i \in 1..Len(seq)}

\* whatsApp.py 37-54 (MIN_REQUIRED_SLOTS): what an intent needs and the
\* slots do not hold, by the names the replies use; "selector_evento" is
\* the resolved event id.
MinRequiredMissing(intent, S) ==
    CASE intent = "crear" ->
           {k \in {"titulo", "inicio"} : Falsy(S.sc[k])}
           \cup (IF Falsy(S.sc["fin"]) /\ Falsy(S.sc["duracion"])
                 THEN {"fin/duracion"} ELSE {})
      [] intent = "consultar_disponibilidad" ->
           {k \in {"desde", "hasta"} : Falsy(S.sc[k])}
      [] intent = "actualizar" ->
           {k \in {"event_id"} : Falsy(S.sc[k])}
           \cup (IF CambiosNonEmptyDict(S.cambios) THEN {} ELSE {"cambios"})
      [] intent = "cancelar" ->
           {k \in {"event_id"} : Falsy(S.sc[k])}
      [] OTHER -> {}

C8_UnclearReply ==
    [][Handled /\ PendingSet(Loaded(db)) /\ ~AwaitingSet(Loaded(db))
         /\ Lower(Strip(msg)) \notin affirmatives \cup negatives
         => /\ db' = db
            /\ out' = Reply("confirm_again", <<>>)]_vars

\* The question was asked again and the proposal is still stored.
C8_Witness ==
    /\ pc = "responded"
    /\ out.kind = "confirm_again"
    /\ msg = <<"hola">>
    /\ db.pending_intent = "cancelar"
    /\ db.pending_message = <<"cancelar">>

\* The number a message carries: int() of its first run of digits.
NoValidNumber(text, n) ==
    \/ FirstDigits(text) = None
    \/ IntOf(FirstDigits(text)) < 1
    \/ IntOf(FirstDigits(text)) > n

\* C9: while an event is being chosen among n candidates, a message with
\* no number or with a number outside 1..n is answered with a re-prompt and
\* changes no field of the row.
C9_InvalidChoice ==
    [][Handled /\ AwaitingSet(Loaded(db))
         /\ NoValidNumber(msg, Len(db.slots.opciones))
         => /\ db' = db
            /\ out'.kind \in {"ask_number", "out_of_range"}
            /\ out'.kind = "ask_number" <=> FirstDigits(msg) = None
            /\ ~out'.extracted /\ ~out'.queried /\ ~out'.executed]_vars

\* With as many candidates as the calendar may return, the next number.
C9_Witness ==
    /\ pc = "responded"
    /\ out.kind = "out_of_range"
    /\ AwaitingSet(db)
    /\ Len(db.slots.opciones) = MaxEvents
    /\ FirstDigits(msg) # None
    /\ IntOf(FirstDigits(msg)) = MaxEvents + 1

\* C10: while an event is being chosen among n candidates, a number k in
\* 1..n stores the id of the k-th candidate as the event id, removes the
\* candidate list and the awaiting marker, then runs the requirement check:
\* the turn reports what is missing, or executes and resets the row.
C10_ValidChoice ==
    [][Handled /\ AwaitingSet(Loaded(db))
         /\ ~NoValidNumber(msg, Len(db.slots.opciones))
         /\ out'.kind # "crash"
         => \/ out'.kind = "executed" /\ FullyReset(db')
            \/ /\ out'.kind = "missing"
               /\ db'.slots.sc["event_id"] = db.slots.opciones[IntOf(FirstDigits(msg))].id
               /\ db'.slots.opciones = <<>>
               /\ ~AwaitingSet(db')]_vars

\* The second candidate was chosen and something is missing: the row
\* object holds the event id, the stored row still awaits the choice.
C10_Witness ==
    /\ pc = "responded"
    /\ out.kind = "missing"
    /\ msg = <<"2">>
    /\ AwaitingSet(db)
    /\ Len(db.slots.opciones) >= 2
    /\ db.slots.sc["event_id"] = ABSENT
    /\ mem.slots.sc["event_id"] = db.slots.opciones[2].id
    /\ mem.slots.opciones = <<>>

\* The four intents and what each needs (spec 4.4, step 4; whatsApp.py
\* 37-54): the call is one the requirements allow.
RequirementsMet(call) ==
    call.intent \in Intents /\ MinRequiredMissing(call.intent, call.slots) = {}

\* C11: the executor is called only when the intent in force is one of the
\* four and the slots hold everything it requires: 'crear' start, title and
\* end or duration; 'consultar_disponibilidad' both ends of the range;
\* 'actualizar' an event id and changes; 'cancelar' an event id.
C11_ReadyOnlyWhenComplete ==
    [][Handled /\ out'.executed => RequirementsMet(out'.call)]_vars

\* An update was executed on a date with no event: the slots passed to the
\* executor hold changes and a target date, and no event id.
C11_Witness ==
    /\ pc = "responded"
    /\ out.kind = "executed"
    /\ out.queried
    /\ out.call.intent = "actualizar"
    /\ out.call.slots.sc["event_id"] = ABSENT
    /\ out.call.slots.sc["fecha_objetivo"] = "2025-03-10"
    /\ CambiosNonEmptyDict(out.call.slots.cambios)

\* The resolver ran in this turn and left more than one candidate in slots
\* that held none before.
SeveralCandidates ==
    /\ out'.queried
    /\ Loaded(db).slots.opciones = <<>>
    /\ Len(mem'.slots.opciones) > 1

\* C12: a turn in which the resolver returns more than one candidate ends
\* with awaiting = event_selection in the stored row and with the numbered
\* selection prompt as its response, with no missing-fields message and no
\* execution, in every branch that runs the extraction.
C12_CandidatesPreempt ==
    [][Handled /\ SeveralCandidates
          => /\ out'.kind = "selection"
             /\ ~out'.executed
             /\ AwaitingSet(db')]_vars

\* A same-intent turn found several candidates: the candidates are stored,
\* the awaiting mark is on the row object only, and the turn ended in the
\* prompt loop with nothing sent.
C12_Witness ==
    /\ pc = "responded"
    /\ out.kind = "crash"
    /\ out.queried
    /\ ~out.executed
    /\ Len(db.slots.opciones) > 1
    /\ AwaitingSet(mem)
    /\ ~AwaitingSet(db)
    /\ db.intent = "cancelar"

\* C13: a turn that calls the executor ends with the stored row fully
\* reset (no intent, empty slots, no proposal, no proposing message),
\* whether the executor succeeds or fails; and a turn that finds the row
\* fully reset and a message without an intent keyword answers with the
\* state-your-intent prompt.
C13_ResetOnCompletion ==
    [][/\ Handled /\ out'.executed => FullyReset(db')
       /\ Handled /\ FullyReset(Loaded(db)) /\ detect_intent(msg) = None
             => out'.kind = "ask_intent"]_vars

\* The executor was called with a complete 'crear' and raised: the row
\* still holds the intent and the slots.
C13_Witness ==
    /\ pc = "responded"
    /\ out.executed
    /\ out.kind = "crash"
    /\ out.call.intent = "crear"
    /\ RequirementsMet(out.call)
    /\ db.intent = "crear"
    /\ db.slots = out.call.slots

\* The responses of a turn: the re-prompts (number, range, confirmation,
\* intent, proposal, summary of what is missing), the missing-fields
\* message, the selection prompt and the executor's summary.
Responses ==
    {"ask_number", "out_of_range", "confirm_again", "ask_intent", "proposal",
     "summary", "missing", "selection", "executed"}

\* C14: every turn ends with exactly one response: a re-prompt, the
\* missing-fields message, the selection prompt or the result of the
\* execution with the row reset; no turn ends with nothing sent.
C14_OneOutcome ==
    [][Handled => out'.kind \in Responses]_vars

\* A turn that sent nothing: an update found several candidates, stored
\* them, and the request ended by the exception of the prompt loop, with the
\* calendar and the executor both sound.
C14_Witness ==
    /\ pc = "responded"
    /\ out.kind = "crash"
    /\ out.queried
    /\ ~out.executed
    /\ db.intent = "actualizar"
    /\ Len(db.slots.opciones) > 1

\* intent_detector.py 91-113: no pattern of any rule set is found in the
\* normalized text.
NoKeyword(text) ==
    \A ks \in {CREATE_KEYWORDS, CANCEL_KEYWORDS, UPDATE_KEYWORDS, CHECK_AVAILABILITY_KEYWORDS} :
        ~Matches(ks, Normalize(text))

\* C15: in a normal turn with no intent in force, a message in which the
\* classifier finds no intent is answered with the state-your-intent
\* prompt, nothing is extracted, queried or executed, and the stored row is
\* the row the turn loaded.
C15_AskIntentKeepsState ==
    [][Handled /\ NormalTurn(Loaded(db)) /\ Loaded(db).intent = None /\ NoKeyword(msg)
          => /\ out' = Reply("ask_intent", <<>>)
             /\ db' = Loaded(db)]_vars

\* A greeting to a row with no intent, no proposal and no selection
\* pending was answered with the prompt.
C15_Witness ==
    /\ pc = "responded"
    /\ out.kind = "ask_intent"
    /\ msg = <<"hola">>
    /\ db.exists
    /\ db.intent = None
    /\ NormalTurn(db)

\* C16: from an empty state, a message the classifier labels as a creation
\* and from which a start and a duration and no title are extracted ends
\* the turn with that intent in force, the start and the duration stored,
\* no execution, and a missing-fields message that lists titulo.
C16_FirstIntentCreate ==
    [][/\ Handled
       /\ FullyReset(Loaded(db))
       /\ detect_intent(msg) = "CREATE_EVENT"
       /\ out'.prop.P = Proposal(ABSENT, "t1", ABSENT, "1h", ABSENT, ABSENT)
          => /\ ~out'.executed
             /\ out'.kind = "missing"
             /\ "titulo" \in Range(out'.faltantes)
             /\ db'.intent = "CREATE_EVENT"
             /\ db'.slots = MergeSlots(EmptySlots, out'.prop.P)]_vars

\* A first message 'crear' with a start and a duration and no title was
\* executed as it stood, and the row was reset.
C16_Witness ==
    /\ pc = "responded"
    /\ msg = <<"crear">>
    /\ out.kind = "executed"
    /\ out.faltantes = <<>>
    /\ out.call.intent = "CREATE_EVENT"
    /\ out.call.slots = Proposal(ABSENT, "t1", ABSENT, "1h", ABSENT, ABSENT)
    /\ FullyReset(db)

\* The resolver returned on a well-formed date and a calendar that answered.
Resolved == mg.phase = "out" /\ mg.fecha \in IsoDates /\ mg.cal.ok

\* The positions of the day's list that hold an event not cancelled.
Live(items) == {i \in 1..Len(items) : items[i].status # "cancelled"}

CandidateIds(opciones) == {opciones[i].id : i \in 1..Len(opciones)}

\* C17: for a well-formed date the resolver decides on the number of events
\* of the day that are not cancelled: none gives (None, []), exactly one
\* gives (its id, []), more than one gives (None, candidates), one
\* candidate for each such event and none for a cancelled one.
C17_ResolverUniqueness ==
    Resolved =>
        LET live == Live(mg.cal.items)
            n == Cardinality(live)
        IN /\ ~mg.res.raised
           /\ n = 0 => mg.res.event_id = None /\ mg.res.opciones = <<>>
           /\ n = 1 => /\ \A i \in live : mg.res.event_id = mg.cal.items[i].id
                       /\ mg.res.opciones = <<>>
           /\ n > 1 => /\ mg.res.event_id = None
                       /\ Len(mg.res.opciones) = n
                       /\ CandidateIds(mg.res.opciones) = {mg.cal.items[i].id : i \in live}

\* A day with a cancelled event and a live one resolved to the live one.
C17_Witness ==
    /\ Resolved
    /\ Len(mg.cal.items) = 2
    /\ mg.cal.items[1].status = "cancelled"
    /\ mg.res.event_id = mg.cal.items[2].id
    /\ mg.res.opciones = <<>>

\* C18: the candidate list the resolver returns never has more entries than
\* the numbers the re-prompts offer, whatever the number of live events.
C18_AtMostThreeCandidates ==
    mg.phase = "out" => Len(mg.res.opciones) <= MaxCandidates

\* Four live events gave four candidates.
C18_Witness ==
    /\ Resolved
    /\ Cardinality(Live(mg.cal.items)) = MaxCandidates + 1
    /\ Len(mg.res.opciones) = MaxCandidates + 1

\* C19: in the candidate list every day-long event comes before every timed
\* one, timed events are in non-decreasing order of the start shown, and a
\* day-long candidate carries the day-long mark as start and the empty
\* string as end.
C19_CandidateOrder ==
    mg.phase = "out" =>
        LET o == mg.res.opciones
            dayLong(id) == \E i \in 1..Len(mg.cal.items) :
                              mg.cal.items[i].id = id /\ mg.cal.items[i].allday
        IN /\ \A i \in 1..Len(o) : \A j \in i..Len(o) :
                 /\ dayLong(o[j].id) => dayLong(o[i].id)
                 /\ ~dayLong(o[i].id) /\ ~dayLong(o[j].id) => o[i].inicio <= o[j].inicio
           /\ \A i \in 1..Len(o) :
                 /\ dayLong(o[i].id) => o[i].inicio = AllDay /\ o[i].fin = AllDay
                 /\ ~dayLong(o[i].id) => o[i].inicio \in 0..23

\* An event carried over from the evening before came first in the
\* calendar's list and last among the candidates, after a day-long event
\* and a timed one.
C19_Witness ==
    /\ Resolved
    /\ Len(mg.cal.items) = 3
    /\ mg.cal.items[1].start < 0
    /\ mg.cal.items[2].allday
    /\ Len(mg.res.opciones) = 3
    /\ mg.res.opciones[1].id = mg.cal.items[2].id
    /\ mg.res.opciones[2].id = mg.cal.items[3].id
    /\ mg.res.opciones[3].id = mg.cal.items[1].id

ClassifierOrder == <<"CREATE_EVENT", "CANCEL_EVENT", "UPDATE_EVENT", "CHECK_AVAILABILITY">>

RuleSet(label) ==
    CASE label = "CREATE_EVENT" -> CREATE_KEYWORDS
      [] label = "CANCEL_EVENT" -> CANCEL_KEYWORDS
      [] label = "UPDATE_EVENT" -> UPDATE_KEYWORDS
      [] label = "CHECK_AVAILABILITY" -> CHECK_AVAILABILITY_KEYWORDS

\* C21: the classifier returns the first intent, in the order creation,
\* cancellation, update, availability, whose rule set matches the
\* normalized text, and None when no rule set matches; a text that matches
\* several rule sets gets the earliest of them.
C21_FirstMatchWins ==
    mg.phase = "out" =>
        LET t == Normalize(mg.text)
            hits == {i \in 1..Len(ClassifierOrder) : Matches(RuleSet(ClassifierOrder[i]), t)}
        IN /\ hits = {} => mg.detected = None
           /\ hits # {} =>
                 \E i \in hits : /\ mg.detected = ClassifierOrder[i]
                                 /\ \A j \in hits : i <= j

\* 'cancelar agendá': both the cancellation and the creation rules match,
\* the latter once the accent is removed, and the text is a creation.
C21_Witness ==
    /\ mg.phase = "out"
    /\ mg.text = <<"cancelar", " ", "agendá">>
    /\ mg.detected = "CREATE_EVENT"

\* The row after the two requests are handled one after the other, a then b.
OneAfterTheOther(a, b) ==
    QuietTurn(QuietTurn(Loaded(mg.row0), mg.req[a].ex).db, mg.req[b].ex).db

\* C22: two overlapping requests of one phone do not interleave their
\* read-modify-write of the row: when both have answered, the stored row is
\* the one that handling them one after the other, in one of the two
\* orders, would have stored.
C22_TurnsSerialized ==
    (\A r \in Requests : mg.req[r].pc = "responded")
        => db \in {OneAfterTheOther(1, 2), OneAfterTheOther(2, 1)}

\* Both requests loaded the row with empty slots; one stored a title, the
\* other a start; the stored row holds the start and no title.
C22_Witness ==
    /\ \A r \in Requests : mg.req[r].pc = "responded"
    /\ mg.row0 = Row("crear", EmptySlots, None, NoneText)
    /\ mg.req[1].ex.P = Proposal("B", ABSENT, ABSENT, ABSENT, ABSENT, ABSENT)
    /\ mg.req[2].ex.P = Proposal(ABSENT, "t1", ABSENT, ABSENT, ABSENT, ABSENT)
    /\ db.slots = Proposal(ABSENT, "t1", ABSENT, ABSENT, ABSENT, ABSENT)

\* C23: there is one row per phone: the first turn creates it with no
\* intent, no proposal, no proposing message and empty slots, later turns
\* reuse it, and two first turns at once leave neither two rows nor a turn
\* that ends without a response.
C23_OneRowPerIdentity ==
    /\ mg.rows <= 1
    /\ \A r \in Requests :
          /\ mg.req[r].pc # "crashed"
          /\ mg.req[r].pc = "responded" => mg.rows = 1 /\ mg.req[r].sent \in Responses
          /\ mg.req[r].pc = "loaded" /\ ~mg.row0.exists => FullyReset(mg.req[r].state)

\* Two first turns at once: both found no row, one inserted it, the commit
\* of the other was refused and its request ended with nothing sent.
C23_Witness ==
    /\ ~mg.row0.exists
    /\ mg.rows = 1
    /\ FullyReset(db)
    /\ \E r \in Requests : mg.req[r].pc = "crashed" /\ mg.req[r].sent = "none"

\* C24: when the calendar query or the executor fails during a turn, the
\* row stored after the turn is the row the turn found, so that the same
\* message can be sent again; the turns that follow an accepted switch and
\* a valid choice of event included.
C24_FailureKeepsState ==
    [][Handled /\ out'.failure \in {"calendar", "executor"} => db' = Loaded(db)]_vars

\* The user accepted a switch to 'cancelar' and the calendar failed: the
\* stored row has the new intent, empty slots and no proposal, and is not
\* the row the turn found.
C24_Witness ==
    /\ pc = "responded"
    /\ out.failure = "calendar"
    /\ NormalizedReply(msg) \in affirmatives
    /\ db.intent = "cancelar"
    /\ db.slots = EmptySlots
    /\ ~PendingSet(db)
    /\ db.pending_message # NoneText

\* C25: what a turn leaves stored is either the row it found or the
\* complete row it ended with: no commit made on the way stays as a partial
\* state, such as the new intent beside the old proposing message, or a
\* candidate list without awaiting = event_selection.
C25_TurnAtomicity ==
    [][Handled => \/ db' = Loaded(db)
                  \/ out'.failure = "none" /\ db' = mem']_vars

\* The user accepted a switch and the calendar listed several events: the
\* selection prompt was sent, the candidates are stored and the awaiting
\* mark is on the row object only.
C25_Witness ==
    /\ pc = "responded"
    /\ out.kind = "selection"
    /\ out.failure = "none"
    /\ NormalizedReply(msg) \in affirmatives
    /\ Len(db.slots.opciones) > 1
    /\ ~AwaitingSet(db)
    /\ AwaitingSet(mem)
    /\ mem.slots.opciones = db.slots.opciones

\* C26: no failure raised inside a turn escapes it: a turn in which the
\* calendar client or the executor raises, or the handler's own code does,
\* still ends with an outbound message.
C26_NoEscape ==
    [][Handled /\ out'.failure # "none" => out'.kind # "crash"]_vars

\* The executor raised on a complete update: the request ended with nothing
\* sent and the row not reset.
C26_Witness ==
    /\ pc = "responded"
    /\ out.failure = "executor"
    /\ out.kind = "crash"
    /\ out.call.intent = "actualizar"
    /\ out.call.slots.sc["event_id"] # ABSENT
    /\ db.intent = "actualizar"

\* The requirement check is about to run, in a normal turn, for a label
\* that is none of 'crear', 'consultar_disponibilidad', 'actualizar',
\* 'cancelar': the label of the first intent, or a stored one the message
\* goes on with.
UnknownIntentTurn ==
    LET st == Loaded(db) IN
    /\ NormalTurn(st)
    /\ \/ st.intent = None /\ detect_intent(msg) \notin Intents \cup {None}
       \/ st.intent \notin Intents \cup {None} /\ detect_intent(msg) \in {None, st.intent}

\* C27: when the requirement check is reached with an intent outside the
\* four known ones, nothing is executed, the stored row is left as it was
\* and the answer is a generic error.
C27_UnknownIntent ==
    [][Handled /\ UnknownIntentTurn
          => /\ ~out'.executed
             /\ db' = Loaded(db)
             /\ out'.kind = "error"]_vars

\* 'cancelar' as first message: the label CANCEL_EVENT passed the
\* requirement check with nothing asked and the executor was called with
\* empty slots.
C27_Witness ==
    /\ pc = "responded"
    /\ msg = <<"cancelar">>
    /\ out.kind = "executed"
    /\ out.faltantes = <<>>
    /\ out.call = [intent |-> "CANCEL_EVENT", slots |-> EmptySlots]

\* C28: the dialogue state is read, created or changed, and intents are
\* classified or executed, only in requests for which ensure_access
\* reported valid access; for every other decision the request ends at the
\* gate, with the stored row as it was and nothing extracted or executed.
C28_AccessGate ==
    [][/\ pc = "idle" /\ pc' = "handling" => out'.access = "ok"
       /\ pc = "idle" /\ pc' = "responded"
             => /\ out'.access \in {"no_credentials", "need_reconsent", "need_refresh"}
                /\ out'.kind \in {"link", "link_reminder", "retry_later"}
                /\ db' = db
                /\ mem' = NoRow
                /\ ~out'.extracted /\ ~out'.queried /\ ~out'.executed
       /\ pc' = "responded" /\ (out'.extracted \/ out'.executed \/ db' # db)
             => out'.access = "ok" /\ out.access = "ok"]_vars

\* A refresh failed for a technical reason: the request ended at the gate
\* with the notice, and the phone still has no conversation row.
C28_Witness ==
    /\ pc = "responded"
    /\ out.access = "need_refresh"
    /\ out.kind = "retry_later"
    /\ ~db.exists

\* C29: between turns the stored candidate list is present exactly when
\* awaiting = event_selection is stored, so that a selection turn always
\* has candidates to index.
C29_CandidatesIffAwaiting ==
    pc = "idle" => (db.slots.opciones # <<>> <=> AwaitingSet(db))

\* After a turn that sent the selection prompt the request is over and the
\* row holds three candidates and no awaiting mark.
C29_Witness ==
    /\ pc = "idle"
    /\ db.intent = "actualizar"
    /\ Len(db.slots.opciones) = 3
    /\ db.slots.sc["awaiting"] = ABSENT
    /\ db.slots.sc["event_id"] = ABSENT

\* The value a change key holds in a slots map ("<absent>" when the map has
\* no dict of changes).
ChangeOf(S, c) == IF S.cambios.kind = "dict" THEN S.cambios.m[c] ELSE ABSENT

\* C30: under an update, the changes extracted from a message are merged
\* into the stored changes key by key: a key stored with a non-empty value
\* keeps it, a key absent or stored empty takes the new value, and no stored
\* key is removed.  Stated of a same-intent turn that ends without
\* execution and without failure.
C30_ChangesMerged ==
    [][/\ Handled
       /\ NormalTurn(Loaded(db))
       /\ Loaded(db).intent = "actualizar"
       /\ detect_intent(msg) = None
       /\ out'.failure = "none" /\ out'.kind # "executed"
       /\ CambiosNonEmptyDict(out'.prop.cambios)
          => \A c \in ChangeKeys :
                LET old == ChangeOf(Loaded(db).slots, c)
                    new == out'.prop.cambios.m[c]
                IN /\ Filled(old) => ChangeOf(db'.slots, c) = old
                   /\ Missing(old) /\ new # ABSENT => ChangeOf(db'.slots, c) = new
                   /\ old # ABSENT => ChangeOf(db'.slots, c) # ABSENT]_vars

\* The stored changes were {titulo: A}; the message brought a new start and
\* no date.  The row object ended with both changes, the stored row with
\* the title only.
C30_Witness ==
    /\ pc = "responded"
    /\ out.kind = "missing"
    /\ db.intent = "actualizar"
    /\ out.prop.cambios = CambiosDict([NoChanges EXCEPT !["inicio"] = "t2"])
    /\ mem.slots.cambios = CambiosDict([titulo |-> "A", inicio |-> "t2"])
    /\ db.slots.cambios = CambiosDict([NoChanges EXCEPT !["titulo"] = "A"])

\* C31: a turn that ends with the selection prompt stores the awaiting
\* marker together with the candidate list, and a later turn that finds
\* candidates stored and is given a number in range is a selection turn:
\* the candidates are consumed by the choice.
C31_AwaitingPersisted ==
    [][/\ Handled /\ out'.kind = "selection"
            => AwaitingSet(db') /\ db'.slots.opciones # <<>>
       /\ Handled /\ db.slots.opciones # <<>>
            /\ ~NoValidNumber(msg, Len(db.slots.opciones))
            => mem'.slots.opciones = <<>>]_vars

\* Candidates were stored without the marker; the answer "2" was taken as
\* a message of the action in progress, and with the candidates still in
\* the slots the turn went back to the selection prompt.
C31_Witness ==
    /\ pc = "responded"
    /\ msg = <<"2">>
    /\ Len(db.slots.opciones) >= 2
    /\ ~AwaitingSet(db)
    /\ ~out.queried
    /\ mem.slots.opciones = db.slots.opciones
    /\ out.failure = "prompt"

\* The user picked a candidate of a cancellation in progress.
CancelChoice ==
    /\ Handled
    /\ AwaitingSet(Loaded(db))
    /\ db.intent = "cancelar"
    /\ ~NoValidNumber(msg, Len(db.slots.opciones))

\* C32: for a cancellation a valid selection satisfies every requirement:
\* the turn of the choice executes and resets the row, and no turn reports
\* a missing field for a cancellation whose event id is resolved.
C32_CancelReadyOnChoice ==
    [][/\ CancelChoice => out'.kind = "executed" /\ FullyReset(db')
       /\ Handled /\ db.intent = "cancelar" /\ mem'.intent = "cancelar"
            /\ mem'.slots.sc["event_id"] # ABSENT
            => out'.kind # "missing"]_vars

\* The first candidate of a cancellation was chosen; the reply lists the
\* date as missing and nothing was executed.
C32_Witness ==
    /\ pc = "responded"
    /\ msg = <<"1">>
    /\ db.intent = "cancelar"
    /\ AwaitingSet(db)
    /\ mem.slots.sc["event_id"] = db.slots.opciones[1].id
    /\ out.kind = "missing"
    /\ "fecha" \in Range(out.faltantes)
    /\ ~out.executed

\* C33: the missing-requirement list reported after a rejected switch is
\* the list the requirement check of aplicar_extraccion_de_slots gives for
\* the same intent in force and the same slots.
C33_SameRequirementCheck ==
    [][Handled /\ out'.kind = "summary"
         => out'.faltantes = Faltantes(db'.intent, db'.slots)]_vars

\* A switch away from a cancellation with its event resolved was rejected:
\* the summary lists nothing, the requirement check lists the date.
C33_Witness ==
    /\ pc = "responded"
    /\ out.kind = "summary"
    /\ db.intent = "cancelar"
    /\ db.slots.sc["event_id"] # ABSENT
    /\ out.faltantes = <<>>
    /\ Faltantes(db.intent, db.slots) = <<"fecha">>

\* C34: at every turn boundary the text of a proposal is stored if and
\* only if the proposed intent is stored.
C34_PendingPair ==
    pc = "idle" => (PendingSet(db) <=> db.pending_message # NoneText)

\* Between two turns: the proposed intent has become the intent in force
\* on empty slots, and the text of the proposal is still stored.
C34_Witness ==
    /\ pc = "idle"
    /\ ~PendingSet(db)
    /\ db.pending_message = <<"cancelar">>
    /\ db.intent = "cancelar"
    /\ db.slots = EmptySlots

\* C35: once the stored slots of an update or a cancellation hold an event
\* id, a turn that leaves the same action in force does not query the
\* calendar and stores the same event id, the same target date and the
\* same candidate list, whatever date the message carries.
C35_ResolvedStaysResolved ==
    [][Handled /\ db.intent \in {"actualizar", "cancelar"}
         /\ db.slots.sc["event_id"] # ABSENT
         /\ db'.intent = db.intent
         => /\ ~out'.queried
            /\ db'.slots.sc["event_id"] = db.slots.sc["event_id"]
            /\ db'.slots.sc["fecha_objetivo"] = db.slots.sc["fecha_objetivo"]
            /\ db'.slots.opciones = db.slots.opciones]_vars

\* An update with its event resolved got a message carrying another date:
\* the extractor returned the date, no query was made, nothing moved.
C35_Witness ==
    /\ pc = "responded"
    /\ db.intent = "actualizar"
    /\ db.slots.sc["event_id"] = "e1"
    /\ db.slots.sc["fecha_objetivo"] = "2025-03-10"
    /\ out.extracted
    /\ out.prop.fecha \notin {None, "", "2025-03-10"}
    /\ ~out.queried
    /\ out.kind = "missing"

\* C36: two consent links of one phone are never less than
\* LINK_COOLDOWN_SECONDS apart, the requests being handled one after the
\* other or at the same time.
C36_LinkCooldown ==
    mg.phase = "link" =>
        \A i, j \in 1..Len(mg.links) :
            i < j => mg.links[j] - mg.links[i] >= LINK_COOLDOWN_SECONDS

\* Both requests passed the test before either had written the cache, and
\* both sent the link, at the same reading of the clock.
C36_Witness ==
    /\ mg.phase = "link"
    /\ Len(mg.links) = 2
    /\ mg.links[1] = mg.links[2]
    /\ \A r \in Requests : mg.req[r].reply = "link" /\ ~mg.req[r].hit

\* C37: a request that finds no entry for the phone in the cooldown cache
\* sends the link, never the reminder, whatever the clock reads.
C37_FirstLinkSent ==
    mg.phase = "link" =>
        \A r \in Requests :
            mg.req[r].pc # "new" /\ ~mg.req[r].hit => mg.req[r].reply # "link_reminder"

\* The clock read less than the cooldown, the cache had no entry, and the
\* request answered with the reminder; no link was ever sent.
C37_Witness ==
    /\ mg.phase = "link"
    /\ mg.links = <<>>
    /\ \E r \in Requests :
          /\ mg.req[r].reply = "link_reminder"
          /\ ~mg.req[r].hit
          /\ mg.req[r].now < LINK_COOLDOWN_SECONDS

\* The refresh was asked of Google and failed with invalid_grant.
GrantRefused(ans) == ans.kind = "http" /\ ans.status = 400 /\ ans.error = "invalid_grant"

\* The refresh failed with a server error, a timeout or a network error,
\* or with another client error status.
TransientOrConfig(ans) ==
    \/ ans.kind = "network"
    \/ ans.kind = "http" /\ ~GrantRefused(ans)

\* C38: ensure_access asks for a consent link exactly when no credentials
\* are stored or the refresh fails with invalid_grant, a stored credential
\* without refresh token included; a valid token or a successful refresh
\* gives status ok; a transient or configuration error of the refresh gives
\* need_refresh and no link.
C38_ConsentLinkExactly ==
    mg.phase = "auth" /\ mg.last.op = "access" =>
        LET cred == mg.last.before[mg.last.phone]
            ans == mg.last.ans
            decision == mg.last.decision
            expired == cred.exists /\ ~cred.valid
        IN /\ decision.action = "send_link" <=>
                 \/ ~cred.exists
                 \/ expired /\ (NoToken(cred.refresh_token) \/ GrantRefused(ans))
           /\ cred.exists /\ cred.valid => decision.status = "ok"
           /\ expired /\ ~NoToken(cred.refresh_token) /\ ans.kind = "tokens"
                 /\ ans.td.access_token # ""
                 => decision.status = "ok" /\ mg.creds[mg.last.phone].valid
           /\ expired /\ ~NoToken(cred.refresh_token) /\ TransientOrConfig(ans)
                 => decision.status = "need_refresh" /\ decision.action = "none"

\* An expired credential with a refresh token, and Google answered the
\* refresh with a 500: need_refresh, no link, the row as it was.
C38_Witness ==
    /\ mg.phase = "auth"
    /\ mg.last.op = "access"
    /\ mg.last.before[mg.last.phone] = Cred("r1", FALSE)
    /\ mg.last.ans.status = 500
    /\ mg.last.decision.status = "need_refresh"
    /\ mg.last.decision.action = "none"
    /\ mg.creds = mg.last.before

\* C39: a non-empty refresh token stored for a phone stays non-empty under
\* upsert_google_tokens and try_refresh: token data without a refresh token
\* keeps the stored one, and only a new non-empty one replaces it.
C39_RefreshTokenKept ==
    mg.phase = "auth" /\ mg.last.op \in {"access", "callback"} =>
        \A p \in Phones :
            LET old == mg.last.before[p].refresh_token
                new == mg.creds[p].refresh_token
            IN ~NoToken(old) =>
                  /\ ~NoToken(new)
                  /\ NoToken(mg.last.ans.td.refresh_token) => new = old
                  /\ new # old => new = mg.last.ans.td.refresh_token

\* The phone consented again and Google sent no refresh token with the new
\* tokens: the stored one is kept and the access token is valid again.
C39_Witness ==
    /\ mg.phase = "auth"
    /\ mg.last.op = "callback"
    /\ mg.last.status = 200
    /\ mg.last.before[mg.last.phone] = Cred("r1", FALSE)
    /\ mg.last.ans.td.refresh_token = NULL
    /\ mg.creds[mg.last.phone] = Cred("r1", TRUE)

\* The state was built by build_state for one of the phones.
Genuine(state) ==
    \E p \in Phones, k \in 0..(MaxAgeSteps + 1) : state = build_state(p, k * StateStep)

\* C40: the callback stores credentials only for a state that verifies and
\* is at most 600 s old; with a missing, tampered or expired state, or
\* without a code, it answers 400, exchanges no code and leaves every
\* credential row as it was.
C40_CallbackNeedsValidState ==
    /\ mg.phase = "auth"
    /\ mg.last.op = "callback"
    /\ \/ mg.last.state = NoState
       \/ ~Genuine(mg.last.state)
       \/ mg.clock - mg.last.state.ts > MAX_STATE_AGE
       \/ mg.last.code = ""
    => /\ mg.last.status = 400
       /\ ~mg.last.exchanged
       /\ mg.creds = mg.last.before

\* The state of the link came back 900 s after it was signed, with a code
\* Google would have exchanged: 400, nothing stored.
C40_Witness ==
    /\ mg.phase = "auth"
    /\ mg.last.op = "callback"
    /\ mg.last.state = mg.link
    /\ mg.link # NoState
    /\ mg.clock - mg.link.ts > MAX_STATE_AGE
    /\ mg.last.code = "c"
    /\ mg.last.ans.kind = "tokens"
    /\ mg.last.status = 400
    /\ ~mg.last.exchanged
    /\ mg.creds = mg.last.before

====
